---- MODULE Spec2Model ----
(***************************************************************************)
(* Model of the Intern-Hunter resume front end:                            *)
(*   - cleanExtractedPreview, the line-level noise filter of ResumePage;   *)
(*   - loadHistory's grouping of feedback snapshots in ResumeFeedback;     *)
(*   - the preview slot of ResumePage (loadResumePreview, the resumeId     *)
(*     effect, handleUpload, onAnalyze, handleDownloadCurrent, the unmount *)
(*     cleanup) as rendered by ResumePreview;                              *)
(*   - uploadResumeWithProgress of api.ts, event by event;                 *)
(*   - the snapshot shown by ResumeFeedback (loadLatest, handleGenerateNew,*)
(*     handleSaveNotes and their buttons).                                 *)
(* Text is a sequence of one-character strings, so that trimming,          *)
(* splitting, lower-casing and substring search are computed.              *)
(***************************************************************************)
EXTENDS Integers, Sequences, FiniteSets, TLC

VARIABLES
    cleanIn,      \* cleanExtractedPreview: the argument `value`
    cleanOut,     \* its result
    cleanAgain,   \* the result of cleaning cleanOut once more
    cleanPc,      \* "start" | "once" | "twice"
    histRows,       \* loadHistory: the rows listMyResumeFeedback(50) answers with
    feedbackItems,  \* loadHistory: the snapshots whose detail fetch succeeded
    histResumeMap,  \* loadHistory: resumeMap, resume id -> file name or null
    historyGroups,  \* useState historyGroups
    loadingHistory, \* useState loadingHistory
    histPc,         \* "list" | "details" | "resumes" | "done"
    resumeId,             \* useState resumeId
    resumeDetail,         \* useState resumeDetail
    pdfUrl,               \* useState pdfUrl (0 is null)
    docHtml,              \* useState docHtml
    loadingPreview,       \* useState loadingPreview
    uploading,            \* useState uploading
    error,                \* useState error
    emptyPreviewMessage,  \* useState emptyPreviewMessage
    inv,          \* the calls of loadResumePreview, in the order they were made
    liveUrls,     \* object URLs created and not revoked
    listPc,       \* loadLatestResumeId: "pending" | "done"
    uploads,      \* handleUpload calls awaiting uploadResumeWithProgress
    analyses,     \* onAnalyze calls awaiting reextractResume: their resumeId
    mounted,      \* ResumePage is mounted (its unmount cleanup has not run)
    xhr,          \* uploadResumeWithProgress: the XMLHttpRequest and its events
    progressLog,  \* the values passed to onProgress, in order
    settled,      \* the calls of resolve and reject of the upload's promise
    feedbackId,     \* ResumeFeedbackPage: useState feedbackId (0 is null)
    feedback,       \* useState feedback
    notes,          \* useState notes
    loading,        \* useState loading
    generating,     \* useState generating
    savingNotes,    \* useState savingNotes
    feedbackError,  \* useState error of ResumeFeedbackPage
    success,        \* useState success
    feedbackCalls,  \* the pending requests of loadLatest, handleGenerateNew, handleSaveNotes
    serverFeedback, \* the server: the notes of each snapshot, oldest snapshot first
    historyCalls    \* calls of loadHistory made by the page

cleanVars == <<cleanIn, cleanOut, cleanAgain, cleanPc>>

histVars == <<histRows, feedbackItems, histResumeMap, historyGroups,
              loadingHistory, histPc>>

pageVars == <<resumeId, resumeDetail, pdfUrl, docHtml, loadingPreview, uploading,
              error, emptyPreviewMessage, inv, liveUrls, listPc,
              uploads, analyses, mounted>>

uploadVars == <<xhr, progressLog, settled>>

feedbackVars == <<feedbackId, feedback, notes, loading, generating, savingNotes,
                  feedbackError, success, feedbackCalls, serverFeedback,
                  historyCalls>>

vars == <<cleanVars, histVars, pageVars, uploadVars, feedbackVars>>

\* what the steps of one part of the model leave alone
notClean == <<histVars, pageVars, uploadVars, feedbackVars>>

notHist == <<cleanVars, pageVars, uploadVars, feedbackVars>>

notPage == <<cleanVars, histVars, uploadVars, feedbackVars>>

notPageUpload == <<cleanVars, histVars, feedbackVars>>

notFeedback == <<cleanVars, histVars, pageVars, uploadVars>>

(***************************************************************************)
(* Characters and strings                                                  *)
(***************************************************************************)

\* JavaScript null / undefined for a string-valued expression.
NullText == <<"null">>

UpperSeq == <<"A","B","C","D","E","F","G","H","I","J","K","L","M",
              "N","O","P","Q","R","S","T","U","V","W","X","Y","Z">>

LowerSeq == <<"a","b","c","d","e","f","g","h","i","j","k","l","m",
              "n","o","p","q","r","s","t","u","v","w","x","y","z">>

Range(s) == {s[i] : i \in DOMAIN s}

UpperChars == Range(UpperSeq)

LowerChars == Range(LowerSeq)

DigitChars == {"0","1","2","3","4","5","6","7","8","9"}

\* /\s/
SpaceChars == {" ", "\t", "\n", "\r"}

\* /[a-zA-Z]/
IsAlpha(c) == c \in UpperChars \cup LowerChars

\* /[^a-zA-Z0-9\s]/
IsSymbol(c) == ~IsAlpha(c) /\ c \notin DigitChars /\ c \notin SpaceChars

\* /[A-Za-z0-9+/=]/
IsBase64(c) == IsAlpha(c) \/ c \in DigitChars \/ c \in {"+", "/", "="}

\* /[A-Z\s/&-]/
IsHeadingChar(c) == c \in UpperChars \/ c \in SpaceChars \/ c \in {"/", "&", "-"}

ToLowerChar(c) ==
    IF c \in UpperChars
    THEN LowerSeq[CHOOSE i \in DOMAIN UpperSeq : UpperSeq[i] = c]
    ELSE c

\* String.prototype.toLowerCase
ToLower(s) == [i \in DOMAIN s |-> ToLowerChar(s[i])]

\* String.prototype.includes
Includes(s, sub) ==
    \E i \in 0..(Len(s) - Len(sub)) :
        \A j \in 1..Len(sub) : s[i + j] = sub[j]

\* String.prototype.endsWith
EndsWith(s, suffix) ==
    /\ Len(s) >= Len(suffix)
    /\ \A j \in 1..Len(suffix) : s[Len(s) - Len(suffix) + j] = suffix[j]

\* String.prototype.trimEnd
TrimEnd(s) ==
    LET keep == {i \in DOMAIN s : s[i] \notin SpaceChars}
    IN  IF keep = {} THEN <<>>
        ELSE SubSeq(s, 1, CHOOSE i \in keep : \A j \in keep : j <= i)

\* String.prototype.trim
Trim(s) ==
    LET keep == {i \in DOMAIN s : s[i] \notin SpaceChars}
    IN  IF keep = {} THEN <<>>
        ELSE SubSeq(s, CHOOSE i \in keep : \A j \in keep : i <= j,
                       CHOOSE i \in keep : \A j \in keep : j <= i)

\* the least element of a non-empty set of indices
First(idx) == CHOOSE i \in idx : \A j \in idx : i <= j

RECURSIVE NormalizeNewlines(_)
\* value.replace(/\r\n?/g, '\n'), one match of /\r\n?/ at a time
NormalizeNewlines(s) ==
    LET cr == {i \in DOMAIN s : s[i] = "\r"}
    IN  IF cr = {} THEN s
        ELSE LET k    == First(cr)
                 next == IF k < Len(s) /\ s[k + 1] = "\n" THEN k + 2 ELSE k + 1
             IN  SubSeq(s, 1, k - 1) \o <<"\n">>
                     \o NormalizeNewlines(SubSeq(s, next, Len(s)))

RECURSIVE SplitLines(_)
\* normalized.split('\n'): always at least one (possibly empty) piece
SplitLines(s) ==
    LET nl == {i \in DOMAIN s : s[i] = "\n"}
    IN  IF nl = {} THEN <<s>>
        ELSE <<SubSeq(s, 1, First(nl) - 1)>>
                 \o SplitLines(SubSeq(s, First(nl) + 1, Len(s)))

RECURSIVE JoinLines(_)
\* cleaned.join('\n')
JoinLines(lines) ==
    IF lines = <<>> THEN <<>>
    ELSE IF Len(lines) = 1 THEN lines[1]
    ELSE lines[1] \o <<"\n">> \o JoinLines(Tail(lines))

Count(s, P(_)) == Cardinality({i \in DOMAIN s : P(s[i])})

(***************************************************************************)
(* cleanExtractedPreview (ResumePage.tsx)                                  *)
(***************************************************************************)

hardNoiseMarkers ==
    { <<"<","?","x","m","l">>,
      <<"s","c","h","e","m","a","s",".","o","p","e","n","x","m","l",
        "f","o","r","m","a","t","s",".","o","r","g">>,
      <<"[","c","o","n","t","e","n","t","_","t","y","p","e","s","]",
        ".","x","m","l">>,
      <<"_","r","e","l","s","/",".","r","e","l","s">>,
      <<"w","o","r","d","/","_","r","e","l","s","/">>,
      <<"t","h","e","m","e","/","t","h","e","m","e">>,
      <<"d","o","c","p","r","o","p","s","/">> }

\* cleaned.length >= 12: a hard-noise line ends the loop
NoiseBreakAt == 12

\* {14,} in looksEncoded
EncodedMinLen == 14

\* trimmed.length <= 6 in isShortToken
ShortTokenMax == 6

\* symbolCount > trimmed.length * 0.38, in hundredths
SymbolPercent == 38

\* alphaCount < 2
MinAlpha == 2

\* trimmed.length < 10 for a line without spaces that is no heading
NoSpaceMinLen == 10

\* a slip: the markers are searched in the line as written
hasHardNoiseCaseSensitive(trimmed) ==
    \E marker \in hardNoiseMarkers : Includes(trimmed, marker)

hasHardNoise(trimmed) ==
    \E marker \in hardNoiseMarkers : Includes(ToLower(trimmed), marker)

alphaCount(trimmed) == Count(trimmed, IsAlpha)

symbolCount(trimmed) == Count(trimmed, IsSymbol)

hasSpaces(trimmed) == \E i \in DOMAIN trimmed : trimmed[i] \in SpaceChars

looksEncoded(trimmed) ==
    /\ Len(trimmed) >= EncodedMinLen
    /\ \A i \in DOMAIN trimmed : IsBase64(trimmed[i])

isShortToken(trimmed) == ~hasSpaces(trimmed) /\ Len(trimmed) <= ShortTokenMax

isMostlySymbols(trimmed) ==
    symbolCount(trimmed) * 100 > Len(trimmed) * SymbolPercent

isHeadingLike(trimmed) ==
    /\ Len(trimmed) >= 3
    /\ trimmed[1] \in UpperChars
    /\ \A i \in 2..Len(trimmed) : IsHeadingChar(trimmed[i])

\* a slip: the test for an encoded run is left out of line 54
PassesTokenQualityNoBase64(trimmed) ==
    /\ ~(isShortToken(trimmed) \/ isMostlySymbols(trimmed)
           \/ alphaCount(trimmed) < MinAlpha)
    /\ ~(~hasSpaces(trimmed) /\ ~isHeadingLike(trimmed)
           /\ Len(trimmed) < NoSpaceMinLen)

\* lines 47-57: TRUE iff the loop body reaches cleaned.push for this line
PassesTokenQuality(trimmed) ==
    /\ ~(looksEncoded(trimmed) \/ isShortToken(trimmed)
           \/ isMostlySymbols(trimmed) \/ alphaCount(trimmed) < MinAlpha)
    /\ ~(~hasSpaces(trimmed) /\ ~isHeadingLike(trimmed)
           /\ Len(trimmed) < NoSpaceMinLen)

\* a plausible slip: the lower-cased copy is pushed instead of the trimmed line
PushLowered(cleaned, trimmed) == Append(cleaned, ToLower(trimmed))

\* cleaned.push(trimmed)
PushLine(cleaned, trimmed) == Append(cleaned, trimmed)

RECURSIVE CleanLoopNoBreak(_, _)
\* a slip: `continue` where line 43 has `break`
CleanLoopNoBreak(rawLines, cleaned) ==
    IF rawLines = <<>> THEN cleaned
    ELSE LET trimmed == Trim(rawLines[1])
             rest    == Tail(rawLines)
         IN  IF trimmed = <<>> THEN CleanLoopNoBreak(rest, cleaned)
             ELSE IF hasHardNoise(trimmed)
                  THEN CleanLoopNoBreak(rest, cleaned)
             ELSE IF PassesTokenQuality(trimmed)
                  THEN CleanLoopNoBreak(rest, PushLine(cleaned, trimmed))
                  ELSE CleanLoopNoBreak(rest, cleaned)

RECURSIVE CleanLoop(_, _)
\* for (const line of rawLines) { ... }: the list `cleaned` after the loop
CleanLoop(rawLines, cleaned) ==
    IF rawLines = <<>> THEN cleaned
    ELSE LET trimmed == Trim(rawLines[1])
             rest    == Tail(rawLines)
         IN  IF trimmed = <<>> THEN CleanLoop(rest, cleaned)
             ELSE IF hasHardNoise(trimmed)
                  THEN IF Len(cleaned) >= NoiseBreakAt
                       THEN cleaned
                       ELSE CleanLoop(rest, cleaned)
             ELSE IF PassesTokenQuality(trimmed)
                  THEN CleanLoop(rest, PushLine(cleaned, trimmed))
                  ELSE CleanLoop(rest, cleaned)

cleanExtractedPreview(value) ==
    IF value = NullText \/ value = <<>> THEN NullText
    ELSE LET normalized == NormalizeNewlines(value)
             split      == SplitLines(normalized)
             rawLines   == [i \in DOMAIN split |-> TrimEnd(split[i])]
             joined     == JoinLines(CleanLoop(rawLines, <<>>))
         IN  IF joined = <<>> THEN NullText ELSE joined

(***************************************************************************)
(* Inputs of cleanExtractedPreview                                         *)
(***************************************************************************)

\* lines per enumerated text
MaxLines == 2

\* accepted lines put in front of a two-line tail (reaches NoiseBreakAt)
MaxGoodLines == 13

LinePool ==
    {
      <<"S","K","I","L","L","S">>,   \* all-caps heading of 6 characters
      <<"P","R","O","J","E","C","T","S">>,   \* all-caps heading of 8 characters
      <<"E","D","U","C","A","T","I","O","N">>,   \* all-caps heading of 9 characters
      <<"A","/","B","-","C","&","D">>,   \* heading pattern, 3 symbols in 7 characters
      <<"E","d","u","c","a","t","i","o","n">>,   \* 9 characters, no spaces, not all caps
      <<"E","x","p","e","r","i","e","n","c","e","1">>,   \* 11 characters, no spaces
      <<"J","o"," ","D","o","e">>,   \* two words
      <<" "," ","J","o"," ","D","o","e"," ","\t">>,   \* two words with surrounding whitespace
      <<"<","?","x","m","l"," ","v","1">>,   \* hard noise
      <<"a"," ","<","?","X","M","L"," ","b">>,   \* hard noise in upper case inside a line
      <<"d","o","c","P","r","o","p","s","/","a","p","p">>,   \* hard noise after lower-casing
      <<"Q","U","J","D","R","E","V","G","R","0","h","J","S","k","t","M","T","U","5","P">>,   \* 20-character base64 run
      <<"a"," ","-","-"," ","&","&">>,   \* symbol density 4/7
      <<"1"," ","2"," ","3"," ","a">>,   \* one alphabetic character
      <<" "," "," ">>    \* blank
    }

LineBreaks == { <<"\n">>, <<"\r","\n">>, <<"\r">> }

GoodLine == <<"J","o"," ","D","o","e">>

\* a line of the envelope of a Word document
NoiseLine == <<"<","?","x","m","l"," ","v","1">>

RECURSIVE JoinWith(_, _)
JoinWith(lines, br) ==
    IF lines = <<>> THEN <<>>
    ELSE IF Len(lines) = 1 THEN lines[1]
    ELSE lines[1] \o br \o JoinWith(Tail(lines), br)

\* one line per hard-noise marker, in mixed letter case, and a blank line
NoisePool ==
    {
      <<"<","?","X","m","l"," ","v","e","r","s","i","o","n","=","1",">">>,
      <<"x","m","l","n","s","=","h","t","t","p",":","/","/","S","c","h","e","m","a","s",".",
        "O","p","e","n","X","m","l","F","o","r","m","a","t","s",".","o","r","g","/","a">>,
      <<"[","C","o","n","t","e","n","t","_","T","y","p","e","s","]",".","x","m","l">>,
      <<"P","K"," ","_","r","e","l","s","/",".","r","e","l","s"," ","P","K">>,
      <<"W","o","r","d","/","_","R","e","l","s","/","d","o","c","u","m","e","n","t">>,
      <<"w","o","r","d","/","T","h","e","m","e","/","T","h","e","m","e","1">>,
      <<"D","o","c","P","r","o","p","s","/","c","o","r","e"," ","d","a","t","a">>,
      <<" ","\t">>
    }

NoiseSeqs(n) == UNION {[1..k -> NoisePool] : k \in 1..n}

LineSeqs(n) == UNION {[1..k -> LinePool] : k \in 1..n}

Repeat(line, k) == [i \in 1..k |-> line]

CleanInputs ==
    {NullText, <<>>}
    \cup {JoinWith(ls, br) : ls \in LineSeqs(MaxLines), br \in LineBreaks}
    \cup {JoinWith(ls, br) : ls \in NoiseSeqs(MaxLines), br \in LineBreaks}
    \cup {JoinWith(Repeat(GoodLine, k) \o tail, <<"\n">>) :
             k \in (NoiseBreakAt - 1)..MaxGoodLines, tail \in [1..2 -> LinePool]}
    \cup {JoinWith(Repeat(GoodLine, NoiseBreakAt - 1)
                       \o <<NoiseLine, tail[1], NoiseLine, tail[2]>>, <<"\n">>) :
             tail \in [1..2 -> LinePool]}

CleanIdle ==
    /\ cleanIn = NullText
    /\ cleanOut = NullText
    /\ cleanAgain = NullText
    /\ cleanPc = "idle"

CleanInit ==
    /\ cleanIn \in CleanInputs
    /\ cleanOut = NullText
    /\ cleanAgain = NullText
    /\ cleanPc = "start"

\* <ResumePreview extractedText={cleanExtractedPreview(...)} />
CleanOnce ==
    /\ cleanPc = "start"
    /\ cleanOut' = cleanExtractedPreview(cleanIn)
    /\ cleanPc' = "once"
    /\ UNCHANGED <<cleanIn, cleanAgain, notClean>>

\* the cleaned text is cleaned again
CleanTwice ==
    /\ cleanPc = "once"
    /\ cleanAgain' = cleanExtractedPreview(cleanOut)
    /\ cleanPc' = "twice"
    /\ UNCHANGED <<cleanIn, cleanOut, notClean>>

(***************************************************************************)
(* loadHistory (ResumeFeedback.tsx): grouping of the feedback snapshots    *)
(***************************************************************************)

\* resume_id: null
NoResume == "null"

\* snapshots in one answer of listMyResumeFeedback
MaxSnapshots == 3

\* created_at takes the values 1..MaxTime (ISO timestamps, in their order)
MaxTime == 3

ResumeIds == {"r1", "r2"}

Snapshot == [feedbackId : 1..MaxSnapshots,
             resume_id  : ResumeIds \cup {NoResume},
             created_at : 1..MaxTime]

\* the server's answer: feedback ids are distinct
HistInputs ==
    UNION {{rows \in [1..n -> Snapshot] : \A i \in 1..n : rows[i].feedbackId = i}
           : n \in 0..MaxSnapshots}

\* String.prototype.localeCompare on two timestamps: negative, zero, positive
LocaleCompare(a, b) == IF a < b THEN -1 ELSE IF a > b THEN 1 ELSE 0

\* Array.prototype.sort is stable: x goes behind every element that does not
\* compare after it
InsertSorted(sorted, x, Cmp(_, _)) ==
    LET p == Cardinality({i \in DOMAIN sorted : Cmp(sorted[i], x) <= 0})
    IN  SubSeq(sorted, 1, p) \o <<x>> \o SubSeq(sorted, p + 1, Len(sorted))

\* Array.prototype.sort with comparator Cmp
StableSort(seq, Cmp(_, _)) ==
    LET F[i \in 0..Len(seq)] ==
            IF i = 0 THEN <<>> ELSE InsertSorted(F[i - 1], seq[i], Cmp)
    IN  F[Len(seq)]

\* const key = resumeId ?? '__no_resume__'
GroupKey(rid) == IF rid = NoResume THEN "__no_resume__" ELSE rid

\* resumeMap.get(resumeId)?.original_filename ?? `Resume (${resumeId})`, or 'Resume'
GroupLabel(rid, resumeMap) ==
    IF rid = NoResume THEN <<"Resume">>
    ELSE IF rid \in DOMAIN resumeMap /\ resumeMap[rid] # NoResume
         THEN <<resumeMap[rid]>>
         ELSE <<"Resume (", rid, ")">>

\* a slip: groupMap.set without looking the key up first replaces the group
InsertItemOverwrite(groupMap, item, resumeMap) ==
    LET key == GroupKey(item.resume_id)
        new == [key |-> key, resumeId |-> item.resume_id,
                resumeFilename |-> GroupLabel(item.resume_id, resumeMap),
                feedbackItems |-> <<item>>]
    IN  IF \E i \in DOMAIN groupMap : groupMap[i].key = key
        THEN [i \in DOMAIN groupMap |->
                 IF groupMap[i].key = key THEN new ELSE groupMap[i]]
        ELSE Append(groupMap, new)

\* the body of `for (const item of feedbackItems)`; groupMap in insertion order
InsertItem(groupMap, item, resumeMap) ==
    LET key == GroupKey(item.resume_id)
    IN  IF \E i \in DOMAIN groupMap : groupMap[i].key = key
        THEN [i \in DOMAIN groupMap |->
                 IF groupMap[i].key = key
                 THEN [groupMap[i] EXCEPT !.feedbackItems = Append(@, item)]
                 ELSE groupMap[i]]
        ELSE Append(groupMap,
                    [key |-> key, resumeId |-> item.resume_id,
                     resumeFilename |-> GroupLabel(item.resume_id, resumeMap),
                     feedbackItems |-> <<item>>])

RECURSIVE BuildGroupMap(_, _, _)
BuildGroupMap(items, groupMap, resumeMap) ==
    IF items = <<>> THEN groupMap
    ELSE BuildGroupMap(Tail(items), InsertItem(groupMap, items[1], resumeMap),
                       resumeMap)

\* a slip: the operands swapped, which sorts a group oldest first
ItemCompareAscending(a, b) == LocaleCompare(a.created_at, b.created_at)

\* (a, b) => (b.feedback.created_at ?? '').localeCompare(a.feedback.created_at ?? '')
ItemCompare(a, b) == LocaleCompare(b.created_at, a.created_at)

\* a.feedbackItems[0]?.feedback.created_at ?? ''  ('' sorts before every timestamp)
TopTime(group) ==
    IF group.feedbackItems = <<>> THEN 0 ELSE group.feedbackItems[1].created_at

\* a slip: the operands of localeCompare swapped, which sorts oldest first
GroupCompareAscending(a, b) == LocaleCompare(TopTime(a), TopTime(b))

\* groups.sort((a, b) => bTop.localeCompare(aTop))
GroupCompare(a, b) == LocaleCompare(TopTime(b), TopTime(a))

\* a slip: the groups are left in the order the Map holds them
KeepGroupOrder(groups) == groups

\* groups.sort(...)
SortGroups(groups) == StableSort(groups, GroupCompare)

\* lines 101-127: the value handed to setHistoryGroups
GroupFeedback(items, resumeMap) ==
    LET groupMap == BuildGroupMap(items, <<>>, resumeMap)
        groups   == [i \in DOMAIN groupMap |->
                        [resumeId |-> groupMap[i].resumeId,
                         resumeFilename |-> groupMap[i].resumeFilename,
                         feedbackItems |->
                             StableSort(groupMap[i].feedbackItems, ItemCompare)]]
    IN  SortGroups(groups)

\* the results of getResume for the resume ids of the snapshots
ResumeMaps(items) ==
    LET ids == {items[i].resume_id : i \in DOMAIN items} \ {NoResume}
    IN  [ids -> {"cv.pdf", NoResume}]

HistIdle ==
    /\ histRows = <<>>
    /\ feedbackItems = <<>>
    /\ histResumeMap = <<>>
    /\ historyGroups = <<>>
    /\ loadingHistory = FALSE
    /\ histPc = "idle"

\* loadHistory up to `await listMyResumeFeedback(50)`
HistInit ==
    /\ histRows \in HistInputs
    /\ feedbackItems = <<>>
    /\ histResumeMap = <<>>
    /\ historyGroups = <<>>
    /\ loadingHistory = TRUE
    /\ histPc = "list"

\* listMyResumeFeedback rejects: finally, and the rejection leaves loadHistory
LoadHistoryListFails ==
    /\ histPc = "list"
    /\ histRows' = <<>>
    /\ loadingHistory' = FALSE
    /\ histPc' = "done"
    /\ UNCHANGED <<feedbackItems, histResumeMap, historyGroups, notHist>>

\* the list arrives; Promise.all of the detail fetches is awaited
LoadHistoryList ==
    /\ histPc = "list"
    /\ histPc' = "details"
    /\ UNCHANGED <<histRows, feedbackItems, histResumeMap, historyGroups,
                   loadingHistory, notHist>>

\* the detail fetches settle; those that failed are filtered out
LoadHistoryDetails ==
    /\ histPc = "details"
    /\ \E ok \in SUBSET (DOMAIN histRows) :
          feedbackItems' =
              LET F[i \in 0..Len(histRows)] ==
                      IF i = 0 THEN <<>>
                      ELSE IF i \in ok THEN Append(F[i - 1], histRows[i])
                      ELSE F[i - 1]
              IN  F[Len(histRows)]
    /\ histRows' = <<>>
    /\ histPc' = "resumes"
    /\ UNCHANGED <<histResumeMap, historyGroups, loadingHistory, notHist>>

\* the getResume fetches settle; the groups are built, sorted and stored
LoadHistoryGroups ==
    /\ histPc = "resumes"
    /\ \E resumeMap \in ResumeMaps(feedbackItems) :
          /\ histResumeMap' = resumeMap
          /\ historyGroups' = GroupFeedback(feedbackItems, resumeMap)
    /\ loadingHistory' = FALSE
    /\ histPc' = "done"
    /\ UNCHANGED <<histRows, feedbackItems, notHist>>

(***************************************************************************)
(* ResumePage.tsx: the preview slot                                        *)
(***************************************************************************)

\* calls of loadResumePreview in one run
MaxResolves == 2

\* calls of handleUpload in one run
MaxUploads == 2

\* calls of onAnalyze in one run
MaxAnalyzes == 1

\* resumeId: null
NoId == "null"

\* resumeDetail: null
NoDetail ==
    [resume_id |-> NoId, original_filename |-> NullText,
     content_type |-> NullText, extracted_text |-> NullText]

\* the documents of the storage collaborator: file name and content type
Catalogue ==
    [r1 |-> [original_filename |-> <<"c","v",".","p","d","f">>,
             content_type |-> NullText],
     r2 |-> [original_filename |-> <<"c","v",".","d","o","c">>,
             content_type |-> <<"a","p","p","l","i","c","a","t","i","o","n","/",
                                "m","s","w","o","r","d">>],
     r3 |-> [original_filename |-> <<"C","V">>,
             content_type |-> <<"a","p","p","l","i","c","a","t","i","o","n","/",
                                "p","d","f">>]]

DocIds == DOMAIN Catalogue

\* extracted_text as the server may hold it: none, container debris, content
ExtractedTexts ==
    { NullText,
      <<"<","?","x","m","l"," ","v","1">>,
      <<"J","o"," ","D","o","e">> }

\* what getResume may answer for a document
Details(id) ==
    {[resume_id |-> id,
      original_filename |-> Catalogue[id].original_filename,
      content_type |-> Catalogue[id].content_type,
      extracted_text |-> t] : t \in ExtractedTexts}

PdfMarker == <<"p","d","f">>

PdfExtension == <<".","p","d","f">>

\* what downloadResumePreviewFile may answer: content type and file name (the
\* name is `resume-${id}-preview.pdf` when the response names none)
PreviewResponses ==
    { [contentType |-> <<"a","p","p","l","i","c","a","t","i","o","n","/","p","d","f">>,
       filename |-> <<"c","v",".","P","D","F">>],
      [contentType |-> <<"t","e","x","t","/","h","t","m","l">>,
       filename |-> <<"c","v",".","h","t","m","l">>],
      [contentType |-> NullText,
       filename |-> <<"r","e","s","u","m","e","-","p","r","e","v","i","e","w",
                      ".","p","d","f">>] }

\* result.value of mammoth.convertToHtml: undefined, blank, markup
ConvertValues ==
    { NullText, <<" ","\n">>, <<"<","p",">","J","o","<","/","p",">"," ">> }

\* what a rejected request rejects with: ApiError(status, message) or Error(message)
FetchErrors ==
    { [kind |-> "ApiError", status |-> 401, message |-> <<"Not authenticated">>],
      [kind |-> "Error", status |-> 0, message |-> <<"Failed to fetch">>] }

\* apiJson / downloadResumeFile: new ApiError(res.status, ...) for a 401 response
Denied == [kind |-> "ApiError", status |-> 401, message |-> <<"Not authenticated">>]

\* fetch() itself rejects (no response): the browser's TypeError
NetworkFailure == [kind |-> "Error", status |-> 0, message |-> <<"Failed to fetch">>]

(***************************************************************************)
(* api.ts: uploadResumeWithProgress                                        *)
(***************************************************************************)

\* bytes of the uploaded file
MaxTotal == 3

\* progress events of one upload
MaxEvents == 3

\* new ApiError(status, message)
ApiError(status, message) ==
    [kind |-> "ApiError", status |-> status, message |-> message]

\* event.loaded / event.total * 100, ten times too large
PercentTimesTen(loaded, total) == (2000 * loaded + total) \div (2 * total)

\* Math.round((event.loaded / event.total) * 100): round half up
Percent(loaded, total) == (200 * loaded + total) \div (2 * total)

\* xhr.upload.onprogress: the values passed to onProgress after the event
onprogress(event, log) ==
    IF ~event.lengthComputable THEN log
    ELSE Append(log, Percent(event.loaded, event.total))

\* the HTTP statuses the upload endpoint answers with
UploadStatuses == {200, 400, 401, 500}

\* the reason phrase of a status line (HTTP/2 has none: xhr.statusText is '')
ReasonPhrase(status) ==
    CASE status = 200 -> <<"OK">>
      [] status = 400 -> <<"Bad Request">>
      [] status = 401 -> <<"Unauthorized">>
      [] OTHER -> <<"Internal Server Error">>

\* xhr.response with responseType 'json': null when the body is no JSON, the
\* acknowledgment, or an object whose `detail` is absent, a list or a string
NoResponseData ==
    [kind |-> "null", resume_id |-> NoId, detailType |-> "absent", detail |-> <<>>]

ResponseData ==
    {NoResponseData}
    \cup {[kind |-> "object", resume_id |-> id, detailType |-> "absent",
           detail |-> <<>>] : id \in DocIds}
    \cup {[kind |-> "object", resume_id |-> NoId, detailType |-> t, detail |-> <<>>] :
             t \in {"absent", "array", "string"}}
    \cup {[kind |-> "object", resume_id |-> NoId, detailType |-> "string",
           detail |-> <<"Unsupported file type">>]}

\* the XMLHttpRequest once the load event fires
XhrResponses ==
    UNION {{[status |-> st, statusText |-> tx, response |-> responseData] :
               tx \in {<<>>, ReasonPhrase(st)}, responseData \in ResponseData} :
           st \in UploadStatuses}

\* a slip: every load event resolves
onloadAlwaysResolves(request) ==
    [kind |-> "resolve", value |-> request.response,
     error |-> ApiError(0, <<>>)]

\* xhr.onload: the call of resolve or reject it makes
onload(request) ==
    LET responseData == request.response
    IN  IF request.status >= 200 /\ request.status < 300 /\ responseData.kind # "null"
        THEN [kind |-> "resolve", value |-> responseData,
              error |-> ApiError(0, <<>>)]
        ELSE LET message ==
                     IF responseData.kind = "object" /\ responseData.detailType = "string"
                     THEN responseData.detail
                     ELSE IF request.statusText # <<>> THEN request.statusText
                     ELSE <<"Upload failed (HTTP ", ToString(request.status), ")">>
             IN  [kind |-> "reject", value |-> NoResponseData,
                  error |-> ApiError(request.status, message)]

\* xhr.onerror
onerror ==
    [kind |-> "reject", value |-> NoResponseData,
     error |-> ApiError(0, <<"Network error while uploading resume">>)]

\* the rejections of uploadResumeWithProgress that the page model draws from
UploadErrors ==
    { onerror.error,
      onload([status |-> 401, statusText |-> <<>>,
              response |-> [kind |-> "object", resume_id |-> NoId,
                            detailType |-> "string",
                            detail |-> <<"Not authenticated">>]]).error }

MsgNotAuthorized == <<"You are not authorized. Please log in again.">>

MsgInvalidFile == <<"Invalid file. Please upload PDF/DOC/DOCX only.">>

MsgNoPreviewYet == "No preview available yet. Upload a file to start."

MsgWordUnavailable ==
    "Inline preview is unavailable for this Word file. Use Download File to open it in Microsoft Word."

\* friendlyErrorMessage
friendlyErrorMessage(errorValue) ==
    IF errorValue.kind = "ApiError"
    THEN IF errorValue.status = 401
         THEN MsgNotAuthorized
         ELSE IF errorValue.status = 400
         THEN IF errorValue.message = <<>>
              THEN MsgInvalidFile
              ELSE errorValue.message
         ELSE errorValue.message
    ELSE IF errorValue.kind = "Error"
    THEN IF Includes(errorValue.message, <<"MongoDB is not configured">>)
         THEN <<"Resume database is unavailable right now. Please start MongoDB or use backend fallback with latest code.">>
         ELSE errorValue.message
    ELSE <<"Something went wrong while processing resume.">>

\* a slip: the file name is not consulted
isPdfByContentType(detail) ==
    detail.content_type # NullText /\ Includes(detail.content_type, PdfMarker)

\* detail.content_type?.includes('pdf') || detail.original_filename.toLowerCase().endsWith('.pdf')
isPdf(detail) ==
    \/ detail.content_type # NullText /\ Includes(detail.content_type, PdfMarker)
    \/ EndsWith(ToLower(detail.original_filename), PdfExtension)

\* previewResponse.contentType?.includes('pdf') || previewResponse.filename.toLowerCase().endsWith('.pdf')
isPreviewPdf(previewResponse) ==
    \/ previewResponse.contentType # NullText
         /\ Includes(previewResponse.contentType, PdfMarker)
    \/ EndsWith(ToLower(previewResponse.filename), PdfExtension)

\* result.value?.trim() || ''
TrimmedHtml(value) == IF value = NullText THEN <<>> ELSE Trim(value)

(***************************************************************************)
(* ResumePreview: what the preview container renders                       *)
(***************************************************************************)

\* extractedText={cleanExtractedPreview(resumeDetail?.extracted_text)}
extractedText == cleanExtractedPreview(resumeDetail.extracted_text)

Truthy(text) == text # NullText /\ text # <<>>

Display ==
    IF loadingPreview THEN "Loading"
    ELSE IF pdfUrl # 0 THEN "PdfStream"
    ELSE IF Truthy(docHtml) THEN "RichTextMarkup"
    ELSE IF Truthy(extractedText) THEN "PlainExcerpt"
    ELSE "Unavailable"

(***************************************************************************)
(* loadResumePreview                                                       *)
(***************************************************************************)

InFlight(i) == inv[i].pc # "done"

\* the step belongs to the mounted page: its state setters take effect
StillMounted == mounted /\ mounted' = mounted

\* the locals of a call that has returned are dropped once a later call exists
Returned ==
    [target |-> NoId, pc |-> "done", detail |-> NoDetail, objectUrl |-> 0,
     html |-> <<>>, exit |-> "returned", alone |-> FALSE, by |-> "none"]

\* of a call that has returned, the record keeps the document it was made for
ReturnedFrom(call) == [Returned EXCEPT !.target = call.target]

\* another writer of the slot acts: the calls in flight no longer run alone
Disturbed ==
    [j \in DOMAIN inv |->
        IF InFlight(j) THEN [inv[j] EXCEPT !.alone = FALSE]
        ELSE ReturnedFrom(inv[j])]

\* the list of calls after loadResumePreview(target) is called.  `alone` records
\* whether a call ran with no other writer of the slot in between, `by` what
\* led to the call: the resumeId effect after the list ("list") or after an
\* upload ("upload"), or onAnalyze ("analyze").
Called(target, by) ==
    Append(Disturbed,
           [target |-> target, pc |-> "getResume", detail |-> NoDetail,
            objectUrl |-> 0, html |-> <<>>, exit |-> "none",
            alone |-> \A j \in DOMAIN inv : ~InFlight(j), by |-> by])

\* call i moves to its next await
At(i, pc) == inv' = [inv EXCEPT ![i].pc = pc]

\* call i returns through `exit`, having created objectUrl or rendered html
Return(i, exit, objectUrl, html) ==
    inv' = [inv EXCEPT ![i] =
               IF i = Len(inv)
               THEN [@ EXCEPT !.pc = "done", !.exit = exit,
                              !.objectUrl = objectUrl, !.html = html]
               ELSE ReturnedFrom(@)]

\* setPdfUrl((previous) => { if (previous) URL.revokeObjectURL(previous); return url })
\* with url = URL.createObjectURL(blob); the URL call i creates is named i
ShowNewUrl(i) ==
    /\ pdfUrl' = i
    /\ liveUrls' = (liveUrls \ {pdfUrl}) \cup {i}

\* lines 150-158: emptyPreviewMessage when no markup was rendered
FallbackMessage(detail) ==
    IF Truthy(detail.extracted_text) THEN "" ELSE MsgWordUnavailable

\* the resumeId effect calls loadResumePreview, or onAnalyze does: up to the
\* first await
CallLoadResumePreview(target, by) ==
    /\ Len(inv) < MaxResolves
    /\ inv' = Called(target, by)
    /\ loadingPreview' = TRUE
    /\ error' = NullText

\* getResume resolves
GetResumeOk(i) ==
    /\ StillMounted
    /\ inv[i].pc = "getResume"
    /\ \E detail \in Details(inv[i].target) :
          /\ resumeDetail' = detail
          /\ IF isPdf(detail)
             THEN /\ inv' = [inv EXCEPT ![i].pc = "pdfFile", ![i].detail = detail]
                  /\ UNCHANGED pdfUrl
             ELSE /\ inv' = [inv EXCEPT ![i].pc = "preview", ![i].detail = detail]
                  /\ pdfUrl' = 0
    /\ UNCHANGED <<resumeId, docHtml, loadingPreview, uploading, error,
                   emptyPreviewMessage, liveUrls, listPc, uploads,
                   analyses, notPage>>

\* a slip: no `finally`, the loading flag stays raised after a rejection
RejectedWithoutFinally(i, pc, errorValue) ==
    /\ StillMounted
    /\ inv[i].pc = pc
    /\ error' = friendlyErrorMessage(errorValue)
    /\ Return(i, "error", 0, <<>>)
    /\ UNCHANGED <<resumeId, resumeDetail, pdfUrl, docHtml, loadingPreview,
                   uploading, emptyPreviewMessage, liveUrls, listPc, uploads,
                   analyses, notPage>>

\* an await outside the inner try blocks rejects with errorValue: catch, finally
RejectedWith(i, pc, errorValue) ==
    /\ StillMounted
    /\ inv[i].pc = pc
    /\ error' = friendlyErrorMessage(errorValue)
    /\ loadingPreview' = FALSE
    /\ Return(i, "error", 0, <<>>)
    /\ UNCHANGED <<resumeId, resumeDetail, pdfUrl, docHtml, uploading,
                   emptyPreviewMessage, liveUrls, listPc, uploads,
                   analyses, notPage>>

Rejected(i, pc) == \E errorValue \in FetchErrors : RejectedWith(i, pc, errorValue)

\* getResume rejects
GetResumeFails(i) == Rejected(i, "getResume")

\* downloadResumeFile rejects on the PDF path
PdfFileFails(i) == Rejected(i, "pdfFile")

\* downloadResumeFile resolves on the PDF path
PdfFileOk(i) ==
    /\ StillMounted
    /\ inv[i].pc = "pdfFile"
    /\ ShowNewUrl(i)
    /\ docHtml' = NullText
    /\ emptyPreviewMessage' = ""
    /\ loadingPreview' = FALSE
    /\ Return(i, "pdf", i, <<>>)
    /\ UNCHANGED <<resumeId, resumeDetail, uploading, error, listPc, uploads,
                   analyses, notPage>>

\* a slip: the answer of the preview fetch is not looked at
PreviewAnswerIgnored(i, previewResponse) ==
    /\ StillMounted
    /\ inv[i].pc = "preview"
    /\ At(i, "docFile")
    /\ UNCHANGED <<resumeId, resumeDetail, pdfUrl, docHtml, loadingPreview,
                   uploading, error, emptyPreviewMessage, liveUrls,
                   listPc, uploads, analyses, notPage>>

\* downloadResumePreviewFile resolves with previewResponse
PreviewAnswered(i, previewResponse) ==
    /\ StillMounted
    /\ inv[i].pc = "preview"
    /\ IF isPreviewPdf(previewResponse)
       THEN /\ ShowNewUrl(i)
            /\ docHtml' = NullText
            /\ emptyPreviewMessage' = ""
            /\ loadingPreview' = FALSE
            /\ Return(i, "previewPdf", i, <<>>)
       ELSE /\ At(i, "docFile")
            /\ UNCHANGED <<pdfUrl, liveUrls, docHtml,
                           emptyPreviewMessage, loadingPreview>>
    /\ UNCHANGED <<resumeId, resumeDetail, uploading, error, listPc, uploads,
                   analyses, notPage>>

\* downloadResumePreviewFile resolves
PreviewOk(i) ==
    \E previewResponse \in PreviewResponses : PreviewAnswered(i, previewResponse)

\* a slip: the rejection of the preview fetch reaches the outer catch
PreviewRejectedSurfaced(i, errorValue) == RejectedWith(i, "preview", errorValue)

\* downloadResumePreviewFile rejects with errorValue: the inner catch (line
\* 129) swallows it
PreviewRejected(i, errorValue) ==
    /\ StillMounted
    /\ inv[i].pc = "preview"
    /\ At(i, "docFile")
    /\ UNCHANGED <<resumeId, resumeDetail, pdfUrl, docHtml, loadingPreview,
                   uploading, error, emptyPreviewMessage, liveUrls,
                   listPc, uploads, analyses, notPage>>

PreviewFails(i) == \E errorValue \in FetchErrors : PreviewRejected(i, errorValue)

\* an await inside the second try resolves and the next one is reached
DocStepOk(i, pc, next) ==
    /\ StillMounted
    /\ inv[i].pc = pc
    /\ At(i, next)
    /\ UNCHANGED <<resumeId, resumeDetail, pdfUrl, docHtml, loadingPreview,
                   uploading, error, emptyPreviewMessage, liveUrls,
                   listPc, uploads, analyses, notPage>>

\* downloadResumeFile resolves on the Word path
DocFileOk(i) == DocStepOk(i, "docFile", "arrayBuffer")

\* fileResponse.blob.arrayBuffer() resolves
ArrayBufferOk(i) == DocStepOk(i, "arrayBuffer", "convert")

\* a slip: setDocHtml(null) forgotten when no markup was rendered
NoMarkupKeepsHtml(i) ==
    /\ StillMounted
    /\ emptyPreviewMessage' = FallbackMessage(inv[i].detail)
    /\ loadingPreview' = FALSE
    /\ Return(i, "fallback", 0, <<>>)
    /\ UNCHANGED <<resumeId, resumeDetail, pdfUrl, docHtml, uploading, error,
                   liveUrls, listPc, uploads, analyses, notPage>>

\* no markup: setDocHtml(null), lines 150-158, return detail, finally
NoMarkup(i) ==
    /\ StillMounted
    /\ docHtml' = NullText
    /\ emptyPreviewMessage' = FallbackMessage(inv[i].detail)
    /\ loadingPreview' = FALSE
    /\ Return(i, "fallback", 0, <<>>)
    /\ UNCHANGED <<resumeId, resumeDetail, pdfUrl, uploading, error, liveUrls, listPc, uploads, analyses, notPage>>

\* downloadResumeFile rejects with errorValue on the Word path: the catch of
\* line 146 swallows it
DocFileRejected(i, errorValue) ==
    /\ inv[i].pc = "docFile"
    /\ NoMarkup(i)

\* an await inside the second try rejects
DocStepFails(i) ==
    \/ \E errorValue \in FetchErrors : DocFileRejected(i, errorValue)
    \/ /\ inv[i].pc \in {"arrayBuffer", "convert"}
       /\ NoMarkup(i)

\* mammoth.convertToHtml resolves with result.value = value
ConvertAnswered(i, value) ==
    /\ StillMounted
    /\ inv[i].pc = "convert"
    /\ LET html == TrimmedHtml(value)
       IN  IF html # <<>>
           THEN /\ docHtml' = html
                /\ emptyPreviewMessage' = ""
                /\ loadingPreview' = FALSE
                /\ Return(i, "html", 0, html)
                /\ UNCHANGED <<resumeId, resumeDetail, pdfUrl, uploading,
                               error, liveUrls, listPc, uploads,
                               analyses, notPage>>
           ELSE NoMarkup(i)

\* mammoth.convertToHtml resolves
ConvertOk(i) == \E value \in ConvertValues : ConvertAnswered(i, value)

(***************************************************************************)
(* The resumeId effect, loadLatestResumeId, handleUpload, onAnalyze        *)
(***************************************************************************)

\* setResumeId(id) and the effect that follows a change of resumeId
SetResumeId(id, by) ==
    /\ resumeId' = id
    /\ IF id = resumeId
       THEN UNCHANGED <<resumeDetail, pdfUrl, docHtml, emptyPreviewMessage, inv,
                        loadingPreview, error>>
       ELSE IF id # NoId
       THEN /\ CallLoadResumePreview(id, by)
            /\ UNCHANGED <<resumeDetail, pdfUrl, docHtml, emptyPreviewMessage>>
       ELSE /\ resumeDetail' = NoDetail
            /\ pdfUrl' = 0
            /\ docHtml' = NullText
            /\ emptyPreviewMessage' = MsgNoPreviewYet
            /\ inv' = Disturbed
            /\ UNCHANGED <<loadingPreview, error>>

\* a newly stored document: not the one the page holds, nor one a call on
\* record was made for
FreshIds == DocIds \ ({resumeId} \cup {inv[j].target : j \in DOMAIN inv})

\* listMyResumes resolves: setResumeId(items[0]?.resume_id ?? null)
LoadLatestOk ==
    /\ StillMounted
    /\ listPc = "pending"
    /\ listPc' = "done"
    /\ \E id \in DocIds \cup {NoId} : SetResumeId(id, "list")
    /\ UNCHANGED <<uploading, liveUrls, uploads, analyses, notPage>>

\* listMyResumes rejects
LoadLatestFails ==
    /\ StillMounted
    /\ listPc = "pending"
    /\ listPc' = "done"
    /\ \E errorValue \in FetchErrors : error' = friendlyErrorMessage(errorValue)
    /\ UNCHANGED <<resumeId, resumeDetail, pdfUrl, docHtml, loadingPreview,
                   uploading, emptyPreviewMessage, inv, liveUrls,
                   uploads, analyses, notPage>>

\* handleUpload up to `await uploadResumeWithProgress`
handleUpload ==
    /\ StillMounted
    /\ uploads < MaxUploads
    /\ uploads' = uploads + 1
    /\ uploading' = TRUE
    /\ error' = NullText
    /\ UNCHANGED <<resumeId, resumeDetail, pdfUrl, docHtml, loadingPreview,
                   emptyPreviewMessage, inv, liveUrls, listPc,
                   analyses, notPage>>

\* the upload button (disabled={uploading}) opens the file picker; a file is chosen
UploadByButton == ~uploading /\ handleUpload

\* a file is dropped on the drop zone
UploadByDrop == handleUpload

\* uploadResumeWithProgress resolves: setResumeId(response.resume_id), finally
UploadOk ==
    /\ StillMounted
    /\ uploads > 0
    /\ uploads' = uploads - 1
    /\ uploading' = FALSE
    /\ \E id \in FreshIds : SetResumeId(id, "upload")
    /\ UNCHANGED <<liveUrls, listPc, analyses, notPage>>

\* uploadResumeWithProgress rejects with errorValue: catch, finally
UploadRejected(errorValue) ==
    /\ StillMounted
    /\ uploads > 0
    /\ uploads' = uploads - 1
    /\ uploading' = FALSE
    /\ error' = friendlyErrorMessage(errorValue)
    /\ UNCHANGED <<resumeId, resumeDetail, pdfUrl, docHtml, loadingPreview,
                   emptyPreviewMessage, inv, liveUrls, listPc,
                   analyses, notPage>>

UploadFails == \E errorValue \in UploadErrors : UploadRejected(errorValue)

\* onAnalyze (button disabled={analyzeDisabled || uploading}) up to
\* `await reextractResume(resumeId)`
AnalyzeStart ==
    /\ StillMounted
    /\ resumeId # NoId
    /\ ~uploading
    /\ Len(analyses) < MaxAnalyzes
    /\ analyses' = Append(analyses, resumeId)
    /\ error' = NullText
    /\ UNCHANGED <<resumeId, resumeDetail, pdfUrl, docHtml, loadingPreview,
                   uploading, emptyPreviewMessage, inv, liveUrls,
                   listPc, uploads, notPage>>

Without(seq, a) == SubSeq(seq, 1, a - 1) \o SubSeq(seq, a + 1, Len(seq))

\* reextractResume rejects with errorValue
AnalyzeRejected(a, errorValue) ==
    /\ StillMounted
    /\ analyses' = Without(analyses, a)
    /\ error' = friendlyErrorMessage(errorValue)
    /\ UNCHANGED <<resumeId, resumeDetail, pdfUrl, docHtml, loadingPreview,
                   uploading, emptyPreviewMessage, inv, liveUrls,
                   listPc, uploads, notPage>>

AnalyzeFails(a) == \E errorValue \in FetchErrors : AnalyzeRejected(a, errorValue)

\* handleDownloadCurrent: downloadResumeFile rejects with errorValue.  When it
\* resolves, the object URL made for the download is revoked in the same turn
\* and no state changes.
DownloadRejected(errorValue) ==
    /\ StillMounted
    /\ resumeId # NoId
    /\ error' = friendlyErrorMessage(errorValue)
    /\ UNCHANGED <<resumeId, resumeDetail, pdfUrl, docHtml, loadingPreview,
                   uploading, emptyPreviewMessage, inv, liveUrls, listPc,
                   uploads, analyses, notPage>>

DownloadFails == \E errorValue \in FetchErrors : DownloadRejected(errorValue)

\* reextractResume resolves: loadResumePreview(resumeId) with the id onAnalyze
\* was created with
AnalyzeReload(a) ==
    /\ StillMounted
    /\ analyses' = Without(analyses, a)
    /\ CallLoadResumePreview(analyses[a], "analyze")
    /\ UNCHANGED <<resumeId, resumeDetail, pdfUrl, docHtml, uploading,
                   emptyPreviewMessage, liveUrls, listPc, uploads,
                   notPage>>

(***************************************************************************)
(* Teardown: the unmount cleanup, and the calls still in flight after it   *)
(***************************************************************************)

\* the cleanup of the unmount effect: the held URL is revoked, setPdfUrl(null),
\* setDocHtml(null).  Calls of handleUpload still awaiting only set state of
\* the page that is gone; calls of loadResumePreview and onAnalyze go on.
Unmount ==
    /\ mounted
    /\ mounted' = FALSE
    /\ liveUrls' = liveUrls \ {pdfUrl}
    /\ pdfUrl' = 0
    /\ docHtml' = NullText
    /\ inv' = [j \in DOMAIN inv |->
                  IF InFlight(j) THEN [inv[j] EXCEPT !.alone = FALSE] ELSE Returned]
    /\ uploads' = 0
    /\ UNCHANGED <<resumeId, resumeDetail, loadingPreview, uploading, error,
                   emptyPreviewMessage, listPc, analyses, notPage>>

\* what a step after teardown leaves alone: the state setters of an unmounted
\* component have no effect
TornDown ==
    /\ ~mounted
    /\ UNCHANGED <<resumeId, resumeDetail, pdfUrl, docHtml, loadingPreview,
                   uploading, error, emptyPreviewMessage, listPc, uploads,
                   mounted, notPage>>

\* call i ends after teardown
LateReturn(i) == inv' = [inv EXCEPT ![i] = Returned]

\* getResume settles after teardown
LateGetResume(i) ==
    /\ TornDown
    /\ inv[i].pc = "getResume"
    /\ \/ LateReturn(i)
       \/ \E detail \in Details(inv[i].target) :
             At(i, IF isPdf(detail) THEN "pdfFile" ELSE "preview")
    /\ UNCHANGED <<liveUrls, analyses>>

\* downloadResumeFile settles after teardown on the PDF path: line 105 creates
\* the object URL, and no state holds it
LatePdfFile(i) ==
    /\ TornDown
    /\ inv[i].pc = "pdfFile"
    /\ LateReturn(i)
    /\ \/ liveUrls' = liveUrls \cup {i}
       \/ UNCHANGED liveUrls
    /\ UNCHANGED analyses

\* downloadResumePreviewFile settles after teardown: line 120
LatePreview(i) ==
    /\ TornDown
    /\ inv[i].pc = "preview"
    /\ \/ \E previewResponse \in PreviewResponses :
             IF isPreviewPdf(previewResponse)
             THEN LateReturn(i) /\ liveUrls' = liveUrls \cup {i}
             ELSE At(i, "docFile") /\ UNCHANGED liveUrls
       \/ At(i, "docFile") /\ UNCHANGED liveUrls
    /\ UNCHANGED analyses

\* the second try after teardown: what is left of the call only sets state
LateDocSteps(i) ==
    /\ TornDown
    /\ inv[i].pc \in {"docFile", "arrayBuffer", "convert"}
    /\ LateReturn(i)
    /\ UNCHANGED <<liveUrls, analyses>>

\* reextractResume settles after teardown: onAnalyze returns, or calls
\* loadResumePreview(resumeId)
LateAnalyze(a) ==
    /\ TornDown
    /\ analyses' = Without(analyses, a)
    /\ \/ UNCHANGED inv
       \/ /\ Len(inv) < MaxResolves
          /\ inv' = Called(analyses[a], "analyze")
    /\ UNCHANGED liveUrls

\* the page after its first render and its mount effects
PageInit ==
    /\ resumeId = NoId
    /\ resumeDetail = NoDetail
    /\ pdfUrl = 0
    /\ docHtml = NullText
    /\ loadingPreview = FALSE
    /\ uploading = FALSE
    /\ error = NullText
    /\ emptyPreviewMessage = MsgNoPreviewYet
    /\ inv = <<>>
    /\ liveUrls = {}
    /\ listPc = "pending"
    /\ uploads = 0
    /\ analyses = <<>>
    /\ mounted = TRUE

PageIdle ==
    /\ resumeId = NoId
    /\ resumeDetail = NoDetail
    /\ pdfUrl = 0
    /\ docHtml = NullText
    /\ loadingPreview = FALSE
    /\ uploading = FALSE
    /\ error = NullText
    /\ emptyPreviewMessage = MsgNoPreviewYet
    /\ inv = <<>>
    /\ liveUrls = {}
    /\ listPc = "idle"
    /\ uploads = 0
    /\ analyses = <<>>
    /\ mounted = FALSE

(***************************************************************************)
(* One upload: the events of its XMLHttpRequest and handleUpload's         *)
(* continuation                                                            *)
(***************************************************************************)

\* no upload is modelled event by event
UploadIdle ==
    /\ xhr = [pc |-> "idle", total |-> 0, loaded |-> 0, events |-> 0,
              computable |-> 0, received |-> FALSE, status |-> 0,
              statusText |-> <<>>, response |-> NoResponseData]
    /\ progressLog = <<>>
    /\ settled = <<>>

\* handleUpload has run up to `await uploadResumeWithProgress`, on a page whose
\* list of documents was empty; xhr.send(form) is done
UploadInit ==
    /\ resumeId = NoId
    /\ resumeDetail = NoDetail
    /\ pdfUrl = 0
    /\ docHtml = NullText
    /\ loadingPreview = FALSE
    /\ uploading = TRUE
    /\ error = NullText
    /\ emptyPreviewMessage = MsgNoPreviewYet
    /\ inv = <<>>
    /\ liveUrls = {}
    /\ listPc = "done"
    /\ uploads = 1
    /\ analyses = <<>>
    /\ mounted = TRUE
    /\ \E total \in 1..MaxTotal :
          xhr = [pc |-> "sent", total |-> total, loaded |-> 0, events |-> 0,
                 computable |-> 0, received |-> FALSE, status |-> 0,
                 statusText |-> <<>>, response |-> NoResponseData]
    /\ progressLog = <<>>
    /\ settled = <<>>

\* a progress event of xhr.upload: more bytes are sent; the total is
\* measurable or not (then event.total is 0)
ProgressEvent ==
    /\ xhr.pc = "sent"
    /\ xhr.events < MaxEvents
    /\ \E loaded \in xhr.loaded..xhr.total, lengthComputable \in BOOLEAN :
          LET event == [lengthComputable |-> lengthComputable, loaded |-> loaded,
                        total |-> IF lengthComputable THEN xhr.total ELSE 0]
          IN  /\ progressLog' = onprogress(event, progressLog)
              /\ xhr' = [xhr EXCEPT !.loaded = loaded, !.events = @ + 1,
                                    !.computable = IF lengthComputable THEN @ + 1 ELSE @]
    /\ UNCHANGED <<pageVars, settled, notPageUpload>>

\* resolve or reject is called, and handleUpload goes on after its await:
\* setResumeId(response.resume_id), or catch; finally
Settle(outcome) ==
    /\ StillMounted
    /\ settled' = Append(settled, outcome)
    /\ uploads' = uploads - 1
    /\ uploading' = FALSE
    /\ IF outcome.kind = "resolve"
       THEN SetResumeId(outcome.value.resume_id, "upload")
       ELSE /\ error' = friendlyErrorMessage(outcome.error)
            /\ UNCHANGED <<resumeId, resumeDetail, pdfUrl, docHtml,
                           loadingPreview, emptyPreviewMessage, inv>>
    /\ UNCHANGED <<liveUrls, listPc, analyses, progressLog, notPageUpload>>

\* the load event: a response was received
XhrLoad ==
    /\ xhr.pc = "sent"
    /\ \E request \in XhrResponses :
          /\ xhr' = [xhr EXCEPT !.pc = "done", !.received = TRUE,
                                !.status = request.status,
                                !.statusText = request.statusText,
                                !.response = request.response]
          /\ Settle(onload(request))

\* the error event: no response was received
XhrError ==
    /\ xhr.pc = "sent"
    /\ xhr' = [xhr EXCEPT !.pc = "done"]
    /\ Settle(onerror)

(***************************************************************************)
(* ResumeFeedback.tsx: the latest snapshot, a new review, the notes        *)
(***************************************************************************)

\* snapshots the server comes to hold
MaxFeedback == 2

\* notes saved on one snapshot
MaxNotes == 1

\* useState<ResumeFeedback | null>(null); a snapshot is identified by the
\* position it has on the server
NoFeedback == [snapshot |-> 0, notes_history |-> <<>>]

\* the ResumeFeedback the server answers with for a snapshot
FeedbackOf(stored, id) == [snapshot |-> id, notes_history |-> stored[id]]

\* what is typed in the notes field
NoteTexts == { <<>>, <<" ">>, <<"o","k">> }

MsgGenerated == <<"New AI feedback generated from your latest resume.">>

MsgNotesSaved == <<"Notes saved.">>

\* normalizeError
normalizeError(errorValue) ==
    IF errorValue.kind \in {"ApiError", "Error"}
    THEN errorValue.message
    ELSE <<"Something went wrong while generating feedback.">>

\* no request of the feedback page is pending
NoFeedbackCalls == [latest |-> "done", latestId |-> 0, generate |-> FALSE,
                    save |-> 0, text |-> <<>>]

FeedbackIdle ==
    /\ feedbackId = 0
    /\ feedback = NoFeedback
    /\ notes = <<>>
    /\ loading = FALSE
    /\ generating = FALSE
    /\ savingNotes = FALSE
    /\ feedbackError = NullText
    /\ success = NullText
    /\ feedbackCalls = NoFeedbackCalls
    /\ serverFeedback = <<>>
    /\ historyCalls = 0

\* the mount effect has called loadLatest and loadHistory; loadLatest awaits
\* listMyResumeFeedback(1)
FeedbackInit ==
    /\ feedbackId = 0
    /\ feedback = NoFeedback
    /\ notes = <<>>
    /\ loading = TRUE
    /\ generating = FALSE
    /\ savingNotes = FALSE
    /\ feedbackError = NullText
    /\ success = NullText
    /\ feedbackCalls = [NoFeedbackCalls EXCEPT !.latest = "list"]
    /\ serverFeedback \in { <<>>, << <<>> >> }
    /\ historyCalls = 1

\* loadLatest: the list is empty
LatestListEmpty ==
    /\ feedbackCalls.latest = "list"
    /\ serverFeedback = <<>>
    /\ feedbackId' = 0
    /\ feedback' = NoFeedback
    /\ notes' = <<>>
    /\ loading' = FALSE
    /\ feedbackCalls' = [feedbackCalls EXCEPT !.latest = "done"]
    /\ UNCHANGED <<generating, savingNotes, feedbackError, success,
                   serverFeedback, historyCalls, notFeedback>>

\* loadLatest: items[0].feedback_id is the newest snapshot; its detail is awaited
LatestListOk ==
    /\ feedbackCalls.latest = "list"
    /\ serverFeedback # <<>>
    /\ feedbackCalls' = [feedbackCalls EXCEPT !.latest = "detail",
                                              !.latestId = Len(serverFeedback)]
    /\ UNCHANGED <<feedbackId, feedback, notes, loading, generating, savingNotes,
                   feedbackError, success, serverFeedback, historyCalls,
                   notFeedback>>

\* loadLatest: getResumeFeedback(latestId) answers
LatestDetailOk ==
    /\ feedbackCalls.latest = "detail"
    /\ feedbackId' = feedbackCalls.latestId
    /\ feedback' = FeedbackOf(serverFeedback, feedbackCalls.latestId)
    /\ notes' = <<>>
    /\ loading' = FALSE
    /\ feedbackCalls' = [feedbackCalls EXCEPT !.latest = "done", !.latestId = 0]
    /\ UNCHANGED <<generating, savingNotes, feedbackError, success,
                   serverFeedback, historyCalls, notFeedback>>

\* loadLatest: one of its two requests rejects: catch, finally
LatestRejected(errorValue) ==
    /\ feedbackCalls.latest \in {"list", "detail"}
    /\ feedbackError' = normalizeError(errorValue)
    /\ loading' = FALSE
    /\ feedbackCalls' = [feedbackCalls EXCEPT !.latest = "done", !.latestId = 0]
    /\ UNCHANGED <<feedbackId, feedback, notes, generating, savingNotes, success,
                   serverFeedback, historyCalls, notFeedback>>

LatestFails == \E errorValue \in FetchErrors : LatestRejected(errorValue)

\* <textarea value={notes} onChange={(event) => setNotes(event.target.value)} />
TypeNotes ==
    \E value \in NoteTexts \ {notes} :
        /\ notes' = value
        /\ UNCHANGED <<feedbackId, feedback, loading, generating, savingNotes,
                       feedbackError, success, feedbackCalls, serverFeedback,
                       historyCalls, notFeedback>>

\* the button "Generate New Review" (disabled={generating}): handleGenerateNew
\* up to `await generateResumeFeedback()`
handleGenerateNew ==
    /\ ~generating
    /\ Len(serverFeedback) < MaxFeedback
    /\ generating' = TRUE
    /\ feedbackError' = NullText
    /\ success' = NullText
    /\ feedbackCalls' = [feedbackCalls EXCEPT !.generate = TRUE]
    /\ UNCHANGED <<feedbackId, feedback, notes, loading, savingNotes,
                   serverFeedback, historyCalls, notFeedback>>

\* generateResumeFeedback answers with a new snapshot; loadHistory is called
GenerateOk ==
    /\ feedbackCalls.generate
    /\ serverFeedback' = Append(serverFeedback, <<>>)
    /\ feedbackId' = Len(serverFeedback')
    /\ feedback' = FeedbackOf(serverFeedback', Len(serverFeedback'))
    /\ notes' = <<>>
    /\ success' = MsgGenerated
    /\ historyCalls' = historyCalls + 1
    /\ generating' = FALSE
    /\ feedbackCalls' = [feedbackCalls EXCEPT !.generate = FALSE]
    /\ UNCHANGED <<loading, savingNotes, feedbackError, notFeedback>>

\* generateResumeFeedback rejects: catch, finally
GenerateRejected(errorValue) ==
    /\ feedbackCalls.generate
    /\ feedbackError' = normalizeError(errorValue)
    /\ generating' = FALSE
    /\ feedbackCalls' = [feedbackCalls EXCEPT !.generate = FALSE]
    /\ UNCHANGED <<feedbackId, feedback, notes, loading, savingNotes, success,
                   serverFeedback, historyCalls, notFeedback>>

GenerateFails == \E errorValue \in FetchErrors : GenerateRejected(errorValue)

\* the button "Save Notes"
\* (disabled={!feedbackId || savingNotes || generating || !notes.trim()}):
\* handleSaveNotes up to `await updateResumeFeedbackNotes(feedbackId, text)`
handleSaveNotes ==
    /\ feedbackId # 0
    /\ ~savingNotes
    /\ ~generating
    /\ Trim(notes) # <<>>
    /\ Len(serverFeedback[feedbackId]) < MaxNotes
    /\ savingNotes' = TRUE
    /\ feedbackError' = NullText
    /\ success' = NullText
    /\ feedbackCalls' = [feedbackCalls EXCEPT !.save = feedbackId,
                                              !.text = Trim(notes)]
    /\ UNCHANGED <<feedbackId, feedback, notes, loading, generating,
                   serverFeedback, historyCalls, notFeedback>>

\* updateResumeFeedbackNotes answers with the updated snapshot; loadHistory is
\* called
SaveNotesOk ==
    /\ feedbackCalls.save # 0
    /\ serverFeedback' =
          [serverFeedback EXCEPT ![feedbackCalls.save] = Append(@, feedbackCalls.text)]
    /\ feedback' = FeedbackOf(serverFeedback', feedbackCalls.save)
    /\ notes' = <<>>
    /\ success' = MsgNotesSaved
    /\ historyCalls' = historyCalls + 1
    /\ savingNotes' = FALSE
    /\ feedbackCalls' = [feedbackCalls EXCEPT !.save = 0, !.text = <<>>]
    /\ UNCHANGED <<feedbackId, loading, generating, feedbackError, notFeedback>>

\* updateResumeFeedbackNotes rejects: catch, finally
SaveNotesRejected(errorValue) ==
    /\ feedbackCalls.save # 0
    /\ feedbackError' = normalizeError(errorValue)
    /\ savingNotes' = FALSE
    /\ feedbackCalls' = [feedbackCalls EXCEPT !.save = 0, !.text = <<>>]
    /\ UNCHANGED <<feedbackId, feedback, notes, loading, generating, success,
                   serverFeedback, historyCalls, notFeedback>>

SaveNotesFails == \E errorValue \in FetchErrors : SaveNotesRejected(errorValue)

(***************************************************************************)
(* Specifications                                                          *)
(***************************************************************************)

InitClean == CleanInit /\ HistIdle /\ PageIdle /\ UploadIdle /\ FeedbackIdle

NextClean == CleanOnce \/ CleanTwice

SpecClean == InitClean /\ [][NextClean]_vars

InitHistory == HistInit /\ CleanIdle /\ PageIdle /\ UploadIdle /\ FeedbackIdle

NextHistory ==
    \/ LoadHistoryListFails
    \/ LoadHistoryList
    \/ LoadHistoryDetails
    \/ LoadHistoryGroups

SpecHistory == InitHistory /\ [][NextHistory]_vars

Init == PageInit /\ CleanIdle /\ HistIdle /\ UploadIdle /\ FeedbackIdle

Next ==
    \/ LoadLatestOk
    \/ LoadLatestFails
    \/ UploadByButton
    \/ UploadByDrop
    \/ UploadOk
    \/ UploadFails
    \/ AnalyzeStart
    \/ \E a \in DOMAIN analyses : AnalyzeFails(a)
    \/ \E a \in DOMAIN analyses : AnalyzeReload(a)
    \/ \E i \in DOMAIN inv : GetResumeOk(i)
    \/ \E i \in DOMAIN inv : GetResumeFails(i)
    \/ \E i \in DOMAIN inv : PdfFileOk(i)
    \/ \E i \in DOMAIN inv : PdfFileFails(i)
    \/ \E i \in DOMAIN inv : PreviewOk(i)
    \/ \E i \in DOMAIN inv : PreviewFails(i)
    \/ \E i \in DOMAIN inv : DocFileOk(i)
    \/ \E i \in DOMAIN inv : ArrayBufferOk(i)
    \/ \E i \in DOMAIN inv : ConvertOk(i)
    \/ \E i \in DOMAIN inv : DocStepFails(i)
    \/ DownloadFails
    \/ Unmount
    \/ \E i \in DOMAIN inv : LateGetResume(i)
    \/ \E i \in DOMAIN inv : LatePdfFile(i)
    \/ \E i \in DOMAIN inv : LatePreview(i)
    \/ \E i \in DOMAIN inv : LateDocSteps(i)
    \/ \E a \in DOMAIN analyses : LateAnalyze(a)

Spec == Init /\ [][Next]_vars

\* a pending request settles: the list, an upload, or a fetch or conversion
\* of a call of loadResumePreview
Settling ==
    \/ LoadLatestOk
    \/ LoadLatestFails
    \/ UploadOk
    \/ UploadFails
    \/ \E i \in DOMAIN inv : GetResumeOk(i)
    \/ \E i \in DOMAIN inv : GetResumeFails(i)
    \/ \E i \in DOMAIN inv : PdfFileOk(i)
    \/ \E i \in DOMAIN inv : PdfFileFails(i)
    \/ \E i \in DOMAIN inv : PreviewOk(i)
    \/ \E i \in DOMAIN inv : PreviewFails(i)
    \/ \E i \in DOMAIN inv : DocFileOk(i)
    \/ \E i \in DOMAIN inv : ArrayBufferOk(i)
    \/ \E i \in DOMAIN inv : ConvertOk(i)
    \/ \E i \in DOMAIN inv : DocStepFails(i)

\* the page with uploads only: no re-analysis, no download, no teardown
NextLive == UploadByButton \/ UploadByDrop \/ Settling

\* the pending request of call i of loadResumePreview settles
Resolving(i) ==
    /\ i \in DOMAIN inv
    /\ \/ GetResumeOk(i)
       \/ GetResumeFails(i)
       \/ PdfFileOk(i)
       \/ PdfFileFails(i)
       \/ PreviewOk(i)
       \/ PreviewFails(i)
       \/ DocFileOk(i)
       \/ ArrayBufferOk(i)
       \/ ConvertOk(i)
       \/ DocStepFails(i)

\* every pending request settles in the end, those of each call included
SpecLive ==
    /\ Init
    /\ [][NextLive]_vars
    /\ WF_vars(Settling)
    /\ \A i \in 1..MaxResolves : WF_vars(Resolving(i))

InitUpload == UploadInit /\ CleanIdle /\ HistIdle /\ FeedbackIdle

NextUpload == ProgressEvent \/ XhrLoad \/ XhrError

SpecUpload == InitUpload /\ [][NextUpload]_vars

InitFeedback ==
    FeedbackInit /\ CleanIdle /\ HistIdle /\ PageIdle /\ UploadIdle

NextFeedback ==
    \/ LatestListEmpty
    \/ LatestListOk
    \/ LatestDetailOk
    \/ LatestFails
    \/ TypeNotes
    \/ handleGenerateNew
    \/ GenerateOk
    \/ GenerateFails
    \/ handleSaveNotes
    \/ SaveNotesOk
    \/ SaveNotesFails

SpecFeedback == InitFeedback /\ [][NextFeedback]_vars

(***************************************************************************)
(* Properties of the preview slot (specification Spec)                     *)
(***************************************************************************)

\* the call of loadResumePreview made last
Last == inv[Len(inv)]

\* no call of loadResumePreview is in flight
Quiet == \A j \in DOMAIN inv : ~InFlight(j)

\* the last call has returned through `exit` and no other writer of the slot
\* acted while it ran or since
LastAlone(exit) ==
    /\ inv # <<>>
    /\ Last.pc = "done"
    /\ Last.exit = exit
    /\ Last.alone

\* what the last call itself leaves in the slot, when it returns normally
ShownByLast ==
    /\ resumeDetail = Last.detail
    /\ pdfUrl = Last.objectUrl
    /\ docHtml = (IF Last.exit = "html" THEN Last.html ELSE NullText)
    /\ emptyPreviewMessage =
           (IF Last.exit = "fallback" THEN FallbackMessage(Last.detail) ELSE "")

\* C1: once every call of loadResumePreview has returned, and the call made
\* last returned normally for the document the page holds, the slot (pdfUrl,
\* docHtml, resumeDetail, emptyPreviewMessage) is what that last call
\* produced, whatever the order in which the fetches of overlapping calls
\* completed.
C1_LastIssuedWins ==
    (/\ Len(inv) >= 2
     /\ Quiet
     /\ Last.exit \in {"pdf", "previewPdf", "html", "fallback"}
     /\ Last.target = resumeId)
    => ShownByLast

\* C2: every object URL the resolver created and has not revoked is the one
\* held in pdfUrl, so no two handles are live for the slot.
C2_OnlyHeldUrlLive == liveUrls \subseteq {pdfUrl}

\* the last call found a PDF document and its binary fetch was rejected
PdfFetchFailed(exit) ==
    /\ LastAlone(exit)
    /\ Last.detail # NoDetail
    /\ isPdf(Last.detail)

\* C3: when the raw binary fetch of a PDF document fails, the slot shows
\* Unavailable: neither a PDF, nor markup, nor the extracted text.
C3_PdfFailureShowsUnavailable ==
    PdfFetchFailed("error") => Display = "Unavailable"

\* the last call, for a document that is no PDF, got no PDF preview and no markup
AllRenderingsFailed ==
    /\ LastAlone("fallback")
    /\ ~isPdf(Last.detail)

\* C4: a call for a document that is no PDF, whose preview fetch and
\* client-side conversion gave nothing and whose extracted text cleans to a
\* non-empty string, leaves the slot showing that cleaned text (PlainExcerpt).
C4_FallbackShowsPlainExcerpt ==
    (AllRenderingsFailed
       /\ Truthy(cleanExtractedPreview(Last.detail.extracted_text)))
    => /\ Display = "PlainExcerpt"
       /\ extractedText = cleanExtractedPreview(Last.detail.extracted_text)

\* C4 witness: the .doc document r2 resolved down to its extracted text
C4_Witness ==
    /\ AllRenderingsFailed
    /\ Last.target = "r2"
    /\ EndsWith(Last.detail.original_filename, <<".","d","o","c">>)
    /\ Truthy(cleanExtractedPreview(Last.detail.extracted_text))
    /\ Display = "PlainExcerpt"

\* C5: a call for a document that is no PDF for which every strategy gave
\* nothing (no PDF preview, no markup, extracted text absent or cleaning to
\* null) leaves the slot showing Unavailable with the Word-specific reason.
C5_NothingShowsWordReason ==
    (AllRenderingsFailed
       /\ ~Truthy(cleanExtractedPreview(Last.detail.extracted_text)))
    => /\ Display = "Unavailable"
       /\ emptyPreviewMessage = MsgWordUnavailable
       /\ emptyPreviewMessage # MsgNoPreviewYet

(***************************************************************************)
(* Properties of cleanExtractedPreview (specification SpecClean)           *)
(***************************************************************************)

\* C6: cleaning is idempotent: a non-null result cleans to itself.
C6_CleanIdempotent ==
    (cleanPc = "twice" /\ cleanOut # NullText) => cleanAgain = cleanOut

\* C6 witness: a text of several lines some of which were dropped, cleaned twice
C6_Witness ==
    /\ cleanPc = "twice"
    /\ cleanOut # NullText
    /\ cleanOut # cleanIn
    /\ Len(SplitLines(cleanOut)) >= 2
    /\ cleanAgain = cleanOut

\* one line, without whitespace, shorter than 10 characters, without a
\* hard-noise marker, matching /^[A-Z][A-Z\s/&-]{2,}$/
ShortHeading(text) ==
    /\ text # NullText
    /\ ~hasSpaces(text)
    /\ Len(text) < NoSpaceMinLen
    /\ ~hasHardNoise(text)
    /\ isHeadingLike(text)

\* C7: every short all-caps heading line is retained.
C7_ShortHeadingsRetained ==
    (cleanPc = "once" /\ ShortHeading(cleanIn)) => cleanOut = cleanIn

(***************************************************************************)
(* Properties of loadHistory's grouping (specification SpecHistory)        *)
(***************************************************************************)

\* loadHistory has stored the groups of the fetched snapshots
Grouped == histPc = "done" /\ ~(feedbackItems = <<>> /\ historyGroups = <<>>)

\* the fetched snapshots in another order
Reordered(p) == [i \in DOMAIN feedbackItems |-> feedbackItems[p[i]]]

Orders == Permutations(DOMAIN feedbackItems)

\* C8 as claimed: every order of the same snapshots gives the same groups in
\* the same order with the same order inside each group, ties included.
C8_OrderIndependent ==
    Grouped =>
        \A p \in Orders :
            GroupFeedback(Reordered(p), histResumeMap) = historyGroups

\* no two snapshots of one resume share a timestamp, and no two resumes share
\* their newest timestamp
NoTies ==
    \A i, j \in DOMAIN feedbackItems :
        (i # j /\ feedbackItems[i].created_at = feedbackItems[j].created_at)
        => /\ feedbackItems[i].resume_id # feedbackItems[j].resume_id
           /\ \E k \in DOMAIN feedbackItems :
                 /\ feedbackItems[k].resume_id \in
                        {feedbackItems[i].resume_id, feedbackItems[j].resume_id}
                 /\ feedbackItems[k].created_at > feedbackItems[i].created_at

\* C8 amended: when no two snapshots of one group share a timestamp and no
\* two groups share their newest timestamp, every order of the snapshots
\* gives the same groups, in the same order, with the same order inside.
C8_OrderIndependentWithoutTies ==
    (Grouped /\ NoTies) =>
        \A p \in Orders :
            GroupFeedback(Reordered(p), histResumeMap) = historyGroups

\* C8 witness: three snapshots without ties, in two groups, that the grouping
\* had to reorder
C8_Witness ==
    /\ Grouped
    /\ NoTies
    /\ Len(feedbackItems) = 3
    /\ Len(historyGroups) = 2
    /\ historyGroups[1].feedbackItems[1] # feedbackItems[1]
    /\ \A p \in Orders :
          GroupFeedback(Reordered(p), histResumeMap) = historyGroups

\* the places <<g, j>> of the groups that hold snapshot x
PlacesOf(x) ==
    {gj \in UNION {{<<g, j>> : j \in DOMAIN historyGroups[g].feedbackItems}
                   : g \in DOMAIN historyGroups} :
        historyGroups[gj[1]].feedbackItems[gj[2]] = x}

\* C9: the groups partition the fetched snapshots by resume id: each snapshot
\* is in exactly one group, no group is empty, a group holds exactly the
\* snapshots of its resume id (the sentinel group those without one), and no
\* two groups share a resume id.
C9_GroupsPartition ==
    Grouped =>
        /\ \A k \in DOMAIN feedbackItems :
              Cardinality(PlacesOf(feedbackItems[k])) = 1
        /\ \A g \in DOMAIN historyGroups :
              /\ historyGroups[g].feedbackItems # <<>>
              /\ \A j \in DOMAIN historyGroups[g].feedbackItems :
                    /\ historyGroups[g].feedbackItems[j].resume_id
                           = historyGroups[g].resumeId
                    /\ historyGroups[g].feedbackItems[j] \in Range(feedbackItems)
        /\ \A g, h \in DOMAIN historyGroups :
              g # h => historyGroups[g].resumeId # historyGroups[h].resumeId

\* C9 witness: the sentinel group and a group of two snapshots of one resume
C9_Witness ==
    /\ Grouped
    /\ Len(feedbackItems) = 3
    /\ \E g, h \in DOMAIN historyGroups :
          /\ historyGroups[g].resumeId = NoResume
          /\ historyGroups[h].resumeId # NoResume
          /\ Len(historyGroups[h].feedbackItems) = 2

\* the newest timestamp among the snapshots of a group
Newest(group) ==
    CHOOSE t \in {group.feedbackItems[j].created_at : j \in DOMAIN group.feedbackItems} :
        \A j \in DOMAIN group.feedbackItems : group.feedbackItems[j].created_at <= t

\* C10: a group whose newest snapshot is more recent than another group's
\* comes before it.
C10_GroupsNewestFirst ==
    Grouped =>
        \A g, h \in DOMAIN historyGroups :
            Newest(historyGroups[g]) > Newest(historyGroups[h]) => g < h

\* C10 witness: A(r1, t1), B(r1, t3), C(r2, t2) give r1 = [B, A] before r2 = [C]
C10_Witness ==
    /\ Grouped
    /\ feedbackItems =
           << [feedbackId |-> 1, resume_id |-> "r1", created_at |-> 1],
              [feedbackId |-> 2, resume_id |-> "r1", created_at |-> 3],
              [feedbackId |-> 3, resume_id |-> "r2", created_at |-> 2] >>
    /\ Len(historyGroups) = 2
    /\ historyGroups[1].resumeId = "r1"
    /\ historyGroups[1].feedbackItems = <<feedbackItems[2], feedbackItems[1]>>
    /\ historyGroups[2].resumeId = "r2"
    /\ historyGroups[2].feedbackItems = <<feedbackItems[3]>>

(***************************************************************************)
(* Teardown and exclusivity of the preview modes (specification Spec)      *)
(***************************************************************************)

\* C11: once the page has been torn down, no object URL that the resolver
\* created is still live, also when a call of loadResumePreview was in
\* flight at teardown and its binary fetch completed afterwards.
C11_NoLiveUrlAfterTeardown == ~mounted => liveUrls = {}

\* C12: pdfUrl and docHtml are never both non-null.
C12_OneModeHeld == ~(pdfUrl # 0 /\ docHtml # NullText)

(***************************************************************************)
(* Properties of one upload (specification SpecUpload)                     *)
(***************************************************************************)

\* C14: the values passed to onProgress during one upload never decrease and
\* are integers from 0 to 100, and a progress event whose total is not
\* measurable makes no callback: there are as many values as measurable
\* events.
C14_ProgressMonotone ==
    /\ \A k \in DOMAIN progressLog : progressLog[k] \in 0..100
    /\ \A k \in 1..(Len(progressLog) - 1) : progressLog[k] <= progressLog[k + 1]
    /\ Len(progressLog) = xhr.computable

\* three events of a 3-byte upload, one of them without a measurable total
C14_Witness ==
    /\ xhr.total = 3
    /\ xhr.events = 3
    /\ progressLog = <<33, 67>>

\* C15: the promise of an upload is settled once, when the transport ends.  A
\* rejection is an ApiError whose status is 0 exactly when no response was
\* received and is the response's HTTP status otherwise; the promise
\* resolves, with the response body, only for a 2xx response.
C15_SettlesOnceWithStatus ==
    /\ Len(settled) = (IF xhr.pc = "done" THEN 1 ELSE 0)
    /\ \A k \in DOMAIN settled :
          IF settled[k].kind = "reject"
          THEN /\ settled[k].error.kind = "ApiError"
               /\ settled[k].error.status = 0 <=> ~xhr.received
               /\ xhr.received => settled[k].error.status = xhr.status
          ELSE /\ xhr.received
               /\ xhr.status \in 200..299
               /\ settled[k].value = xhr.response

\* a 2xx response whose body is no JSON: rejected with the response's status
C15_Witness ==
    /\ xhr.pc = "done"
    /\ xhr.status = 200
    /\ xhr.response = NoResponseData
    /\ settled = <<onload([status |-> 200, statusText |-> <<"OK">>,
                           response |-> NoResponseData])>>
    /\ settled[1].error.status = 200

\* C17: after an upload is rejected with status 400, the error shown is the
\* response's string `detail` when it has a non-empty one, and the generic
\* invalid-file message otherwise.
C17_ValidationMessage ==
    (xhr.pc = "done" /\ xhr.received /\ xhr.status = 400)
    => error = (IF xhr.response.detailType = "string" /\ xhr.response.detail # <<>>
                THEN xhr.response.detail
                ELSE MsgInvalidFile)

(***************************************************************************)
(* Error messages of the page (specification Spec)                         *)
(***************************************************************************)

\* an upload, a metadata fetch, a binary fetch on the PDF path, a re-extract
\* or a download fails because no response was received
NoResponseStep ==
    \/ UploadRejected(onerror.error)
    \/ DownloadRejected(NetworkFailure)
    \/ \E a \in DOMAIN analyses : AnalyzeRejected(a, NetworkFailure)
    \/ \E i \in DOMAIN inv :
          \/ RejectedWith(i, "getResume", NetworkFailure)
          \/ RejectedWith(i, "pdfFile", NetworkFailure)

\* C16: every step in which an operation of the page fails because no
\* response was received leaves in `error` a message that is not the text of
\* the transport's own exception (the message of the TypeError that fetch
\* rejects with).
C16_NetworkErrorIsGeneric ==
    [][NoResponseStep => error' # NetworkFailure.message]_vars

\* a request of call i, of the upload or of re-extract is rejected with 401
DeniedStep ==
    \/ UploadRejected(Denied)
    \/ \E a \in DOMAIN analyses : AnalyzeRejected(a, Denied)
    \/ \E i \in DOMAIN inv :
          \/ RejectedWith(i, "getResume", Denied)
          \/ RejectedWith(i, "pdfFile", Denied)
          \/ PreviewRejected(i, Denied)
          \/ DocFileRejected(i, Denied)

\* C18: every step in which a request made during upload, re-extract or
\* loadResumePreview (metadata, raw binary or alternate-preview fetch) is
\* rejected with status 401 leaves the not-authorized message in `error`.
C18_DeniedShowsLogin == [][DeniedStep => error' = MsgNotAuthorized]_vars

(***************************************************************************)
(* The PDF path (specification Spec)                                       *)
(***************************************************************************)

\* file names with the PDF extension in several letter cases
PdfNames ==
    { <<"c","v",".","p","d","f">>, <<"c","v",".","P","D","F">>,
      <<"R","e","s","u","m","e",".","P","d","f">> }

\* the document has no content type and its file name ends with .pdf
PdfByName(detail) ==
    /\ detail # NoDetail
    /\ detail.content_type = NullText
    /\ EndsWith(ToLower(detail.original_filename), PdfExtension)

\* C20: a call of loadResumePreview for a document without content type whose
\* file name ends with .pdf (in any letter case) awaits the direct binary
\* fetch after the metadata and returns from the PDF path or through the
\* catch: it never awaits the alternate-preview fetch or a later step.
C20_PdfByNameFetchesDirectly ==
    /\ \A name \in PdfNames :
          isPdf([NoDetail EXCEPT !.resume_id = "r1", !.original_filename = name])
    /\ \A i \in DOMAIN inv :
          PdfByName(inv[i].detail)
          => /\ inv[i].pc \in {"pdfFile", "done"}
             /\ inv[i].exit \in {"none", "pdf", "error"}

\* a call for cv.pdf (no content type) whose binary fetch was rejected
C20_Witness ==
    /\ inv # <<>>
    /\ PdfByName(Last.detail)
    /\ Last.pc = "done"
    /\ Last.exit = "error"

(***************************************************************************)
(* Noise-only input (specification SpecClean)                              *)
(***************************************************************************)

\* the line is blank or contains a hard-noise marker in any letter case
NoiseOrBlank(line) ==
    \/ \A i \in DOMAIN line : line[i] \in SpaceChars
    \/ \E marker \in hardNoiseMarkers : Includes(ToLower(line), marker)

\* null, empty, or only blank and hard-noise lines
OnlyNoise(value) ==
    \/ value = NullText
    \/ value = <<>>
    \/ LET lines == SplitLines(NormalizeNewlines(value))
       IN  \A k \in DOMAIN lines : NoiseOrBlank(lines[k])

\* C19: cleanExtractedPreview returns null for null, for the empty string and
\* for a text made of blank lines and hard-noise lines only; it never returns
\* the empty string.
C19_OnlyNoiseCleansToNull ==
    cleanPc # "start"
    => /\ cleanOut # <<>>
       /\ OnlyNoise(cleanIn) => cleanOut = NullText

\* two hard-noise lines in mixed letter case, cleaned to null
C19_Witness ==
    /\ cleanPc = "once"
    /\ cleanIn = <<"[","C","o","n","t","e","n","t","_","T","y","p","e","s","]",".","x","m","l">>
                 \o <<"\r","\n">>
                 \o <<"D","o","c","P","r","o","p","s","/","c","o","r","e"," ","d","a","t","a">>
    /\ cleanOut = NullText

(***************************************************************************)
(* Upload, then preview (specification SpecLive)                           *)
(***************************************************************************)

\* an upload has just succeeded with id: the page holds id and the call of
\* loadResumePreview(id) that the resumeId effect made is the last one; the
\* list of documents was answered before
Acknowledged(id) ==
    /\ listPc = "done"
    /\ inv # <<>>
    /\ Last.by = "upload"
    /\ Last.target = id
    /\ Last.pc = "getResume"
    /\ resumeId = id

\* the call for id has returned, the loading flag is cleared and the slot
\* holds what that call resolved (after a failed fetch: the error)
ShowsResolved(id) ==
    /\ inv # <<>>
    /\ resumeId = id
    /\ Last.target = id
    /\ Last.pc = "done"
    /\ ~loadingPreview
    /\ IF Last.exit = "error" THEN error # NullText ELSE ShownByLast

\* C13: after an upload has succeeded with id N (the page then holds N and a
\* call of loadResumePreview(N) is in flight), and unless a further upload
\* is started, the slot eventually shows what was resolved for N with the
\* loading flag cleared, provided every pending request settles.
C13_UploadLeadsToPreview ==
    \A id \in DocIds : Acknowledged(id) ~> (ShowsResolved(id) \/ uploads > 0)

(***************************************************************************)
(* Flags of the page (specification Spec)                                  *)
(***************************************************************************)

\* C29: at most one call of handleUpload is awaiting its transfer.
C29_SingleUploadInFlight == uploads <= 1

\* C30: while the page is mounted and a call of loadResumePreview is in
\* flight, loadingPreview is true.
C30_LoadingWhileInFlight ==
    (mounted /\ \E i \in DOMAIN inv : InFlight(i)) => loadingPreview

\* C27: while the page is mounted and no call of loadResumePreview is in
\* flight, a PDF shown in the slot was made by a call for the document whose
\* detail (file name, extracted text) is displayed; checked after a last call
\* that no other call overlapped.  The object URL is named after the call
\* that created it.
C27_PdfOfShownDocument ==
    (mounted /\ Quiet /\ inv # <<>> /\ Last.alone /\ pdfUrl # 0)
    => inv[pdfUrl].target = resumeDetail.resume_id

(***************************************************************************)
(* The fallback chain of a document that is no PDF (specification Spec)    *)
(***************************************************************************)

\* the awaits of loadResumePreview after the metadata of a document that is
\* no PDF
ChainSteps == {"preview", "docFile", "arrayBuffer", "convert"}

\* C26: no step of a call of loadResumePreview out of the preview fetch, the
\* raw binary fetch of the Word path or the conversion, whether it succeeds
\* or fails, changes `error`; and a call leaves the preview fetch either
\* with a PDF of its own or for the raw binary fetch.
C26_ChainFailuresAbsorbed ==
    [][\A i \in DOMAIN inv :
          (inv[i].pc \in ChainSteps /\ inv'[i].pc # inv[i].pc)
          => /\ error' = error
             /\ inv[i].pc = "preview"
                => \/ inv'[i].pc = "docFile"
                   \/ inv'[i].pc = "done" /\ i \in liveUrls']_vars

\* a call for a Word file ran alone, got no preview and no markup, and ended
\* with the Word-specific message and no error
C26_Witness ==
    /\ LastAlone("fallback")
    /\ ~isPdf(Last.detail)
    /\ error = NullText
    /\ emptyPreviewMessage = MsgWordUnavailable

\* C22: for a document that is no PDF, a call of loadResumePreview awaits the
\* alternate-preview fetch first.  If that fetch answers with a PDF (by
\* content type or by file name) the call shows it and returns; if it is
\* rejected or answers something else, the raw binary fetch is awaited next,
\* then arrayBuffer and the conversion.  Markup that is not empty is shown,
\* and the call returns through the extracted-text fallback only out of the
\* raw binary fetch or the conversion.
C22_FallbackOrder ==
    [][\A i \in DOMAIN inv :
          /\ (mounted' /\ inv[i].pc = "getResume"
                /\ inv'[i].pc \notin {"getResume", "done"}
                /\ ~isPdf(inv'[i].detail))
             => inv'[i].pc = "preview"
          /\ \A previewResponse \in PreviewResponses :
                PreviewAnswered(i, previewResponse)
                => IF isPreviewPdf(previewResponse)
                   THEN /\ inv'[i].pc = "done"
                        /\ pdfUrl' = i
                        /\ docHtml' = NullText
                   ELSE inv'[i].pc = "docFile"
          /\ (\E errorValue \in FetchErrors : PreviewRejected(i, errorValue))
             => inv'[i].pc = "docFile"
          /\ (inv[i].pc = "docFile" /\ inv'[i].pc # "docFile")
             => inv'[i].pc \in {"arrayBuffer", "done"}
          /\ (inv[i].pc = "arrayBuffer" /\ inv'[i].pc # "arrayBuffer")
             => inv'[i].pc \in {"convert", "done"}
          /\ \A value \in ConvertValues :
                (ConvertAnswered(i, value) /\ TrimmedHtml(value) # <<>>)
                => /\ inv'[i].pc = "done"
                   /\ docHtml' = TrimmedHtml(value)
          /\ (inv'[i].exit = "fallback" /\ inv[i].exit # "fallback")
             => inv[i].pc \in {"docFile", "arrayBuffer", "convert"}]_vars

\* a call for a Word file ran alone and shows the PDF of the preview fetch
C22_Witness ==
    /\ LastAlone("previewPdf")
    /\ ~isPdf(Last.detail)
    /\ pdfUrl = Len(inv)
    /\ Display = "PdfStream"

(***************************************************************************)
(* Termination of loadResumePreview (specification SpecLive)               *)
(***************************************************************************)

\* what ResumePreview can render
SlotStates == {"PdfStream", "RichTextMarkup", "PlainExcerpt", "Unavailable"}

\* C21: provided every pending request settles, every call of
\* loadResumePreview returns, on every combination of success and failure of
\* its fetches; and once no call is in flight the loading flag is cleared and
\* the slot renders one of PdfStream, RichTextMarkup, PlainExcerpt and
\* Unavailable, with or without an error message.
C21_ResolveTerminates ==
    /\ \A i \in 1..MaxResolves :
          (i \in DOMAIN inv /\ InFlight(i)) ~> (i \in DOMAIN inv /\ ~InFlight(i))
    /\ [](Quiet => (~loadingPreview /\ Display \in SlotStates))

\* two calls have returned, the last one through the catch
C21_Witness ==
    /\ Len(inv) = 2
    /\ Quiet
    /\ Last.exit = "error"
    /\ error # NullText
    /\ ~loadingPreview

(***************************************************************************)
(* The loop of cleanExtractedPreview, line by line (specification          *)
(* SpecClean)                                                              *)
(***************************************************************************)

\* the lines of the input, trimmed
TrimmedLines(text) ==
    LET split == SplitLines(NormalizeNewlines(text))
    IN  [i \in DOMAIN split |-> Trim(split[i])]

\* the lines of the result
OutLines(text) == IF text = NullText THEN <<>> ELSE SplitLines(text)

\* neither blank nor hard noise, and passing the tests of lines 47-57
AcceptedLine(line) ==
    line # <<>> /\ ~hasHardNoise(line) /\ PassesTokenQuality(line)

\* the accepted lines among the first n
AcceptedUpTo(lines, n) == SelectSeq(SubSeq(lines, 1, n), AcceptedLine)

\* positions of the hard-noise lines met with 12 or more lines accepted
StopsAt(lines) ==
    {p \in DOMAIN lines : /\ hasHardNoise(lines[p])
                          /\ Len(AcceptedUpTo(lines, p - 1)) >= 12}

\* positions of the hard-noise lines met with fewer than 12 lines accepted
SkipsAt(lines) ==
    {p \in DOMAIN lines : /\ hasHardNoise(lines[p])
                          /\ Len(AcceptedUpTo(lines, p - 1)) < 12}

\* C23: a hard-noise line met with fewer than 12 lines accepted is dropped
\* and the lines after it are still processed; the first hard-noise line met
\* with 12 or more lines accepted ends the processing: the result is made of
\* the accepted lines before it, whatever follows it.
C23_NoiseSkipsThenStops ==
    (cleanPc = "once" /\ cleanIn # NullText /\ cleanIn # <<>>)
    => LET lines == TrimmedLines(cleanIn)
           stops == StopsAt(lines)
           upTo  == IF stops = {} THEN Len(lines) ELSE First(stops) - 1
       IN  OutLines(cleanOut) = AcceptedUpTo(lines, upTo)

\* C23 witness: one hard-noise line skipped after 11 accepted lines, the line
\* after it accepted as the twelfth, the next hard-noise line ending the
\* loop with an acceptable line behind it
C23_Witness ==
    /\ cleanPc = "once"
    /\ cleanIn # NullText /\ cleanIn # <<>>
    /\ LET lines == TrimmedLines(cleanIn)
       IN  /\ SkipsAt(lines) # {}
           /\ StopsAt(lines) # {}
           /\ \E p \in SkipsAt(lines), q \in StopsAt(lines) :
                 /\ p < q
                 /\ \E m \in (p + 1)..(q - 1) : AcceptedLine(lines[m])
                 /\ \E m \in (q + 1)..Len(lines) : AcceptedLine(lines[m])
           /\ Len(OutLines(cleanOut)) = 12

RECURSIVE IsSubsequence(_, _)
\* the lines of a occur in b, in the same order
IsSubsequence(a, b) ==
    IF a = <<>> THEN TRUE
    ELSE IF b = <<>> THEN FALSE
    ELSE IF a[1] = b[1] THEN IsSubsequence(Tail(a), Tail(b))
    ELSE IsSubsequence(a, Tail(b))

\* the 20-character run of base64 characters of the line pool
Base64Run ==
    <<"Q","U","J","D","R","E","V","G","R","0","h","J","S","k","t","M","T","U","5","P">>

\* C24: every line of the result is a trimmed, non-blank line of the input,
\* the result's lines come in the input's order, and each of them has no
\* hard-noise marker, is no run of 14 or more base64 characters, is no
\* whitespace-free token of 6 characters or fewer, has no more symbols than
\* 38 % of its length and has at least 2 letters; so a line failing one of
\* these tests is not in the result.
C24_OutputLinesPassFilters ==
    (cleanPc = "once" /\ cleanIn # NullText /\ cleanIn # <<>>)
    => LET lines == TrimmedLines(cleanIn)
           out   == OutLines(cleanOut)
       IN  /\ IsSubsequence(out, lines)
           /\ \A i \in DOMAIN out :
                 LET line == out[i]
                 IN  /\ line # <<>>
                     /\ line = Trim(line)
                     /\ \A marker \in hardNoiseMarkers :
                           ~Includes(ToLower(line), marker)
                     /\ ~(Len(line) >= 14 /\ \A j \in DOMAIN line : IsBase64(line[j]))
                     /\ ~(Len(line) <= 6 /\ \A j \in DOMAIN line : line[j] \notin SpaceChars)
                     /\ Count(line, IsSymbol) * 100 <= 38 * Len(line)
                     /\ Count(line, IsAlpha) >= 2
           /\ \A p \in DOMAIN lines :
                 ~AcceptedLine(lines[p]) => lines[p] \notin Range(out)

\* C24 witness: a text with the base64 run among accepted lines, cleaned to
\* several lines without the run
C24_Witness ==
    /\ cleanPc = "once"
    /\ cleanIn # NullText /\ cleanIn # <<>>
    /\ Base64Run \in Range(TrimmedLines(cleanIn))
    /\ Len(OutLines(cleanOut)) >= 2
    /\ Base64Run \notin Range(OutLines(cleanOut))

(***************************************************************************)
(* Order inside a group (specification SpecHistory)                        *)
(***************************************************************************)

\* the position of snapshot x in the list the groups were built from
InputPosition(x) == CHOOSE i \in DOMAIN feedbackItems : feedbackItems[i] = x

\* C25: inside every group the snapshots come newest first, and two snapshots
\* of a group with the same timestamp come in the order of the input list.
C25_NewestFirstInsideGroup ==
    Grouped =>
        \A g \in DOMAIN historyGroups :
            LET items == historyGroups[g].feedbackItems
            IN  \A j, k \in DOMAIN items :
                    j < k =>
                        /\ items[j].created_at >= items[k].created_at
                        /\ items[j].created_at = items[k].created_at
                           => InputPosition(items[j]) < InputPosition(items[k])

\* C25 witness: a group of three snapshots, the newest of which came last in
\* the input and the other two of which share a timestamp
C25_Witness ==
    /\ Grouped
    /\ Len(feedbackItems) = 3
    /\ Len(historyGroups) = 1
    /\ historyGroups[1].feedbackItems[1] = feedbackItems[3]
    /\ feedbackItems[1].created_at = feedbackItems[2].created_at
    /\ feedbackItems[3].created_at > feedbackItems[1].created_at
    /\ historyGroups[1].feedbackItems[2] = feedbackItems[1]
    /\ historyGroups[1].feedbackItems[3] = feedbackItems[2]

(***************************************************************************)
(* The snapshot on display (specification SpecFeedback)                    *)
(***************************************************************************)

\* C28: feedbackId and the feedback on display are of the same snapshot,
\* whatever the order in which the requests of loadLatest, handleGenerateNew
\* and handleSaveNotes are answered; both are null together.
C28_IdMatchesFeedback == feedback.snapshot = feedbackId

====
